---- MODULE Spec2Model ----
(***************************************************************************)
(* A model of the Omniglot foreign-memory layer and of its mock runtime    *)
(* (MockRt): the allocation chain, the process-wide active-chain slot,     *)
(* stacked allocation, callback registration and dispatch, execute, and    *)
(* the scope-checked reference operations.                                 *)
(*                                                                         *)
(* The host program is single threaded.  Every runtime call that takes a   *)
(* closure (allocate_stacked_*, write_stacked_*, setup_callback, execute)  *)
(* and every callback dispatch is one frame of `stack` while its closure   *)
(* runs.  Each such call except execute also builds exactly one node of    *)
(* the MockRtAllocChain in its own stack frame, so a chain node is named   *)
(* by the index of the frame that owns it and 0 names the Base node.       *)
(* A panic ends the program: the model then keeps only the diagnostic.     *)
(***************************************************************************)
EXTENDS Integers, Sequences, FiniteSets, TLC

VARIABLES
    cfg,     \* build and MockRt::new settings
    stack,   \* the closures that are running, outermost first
    slot,    \* ACTIVE_ALLOC_CHAIN_HEAD_ROG
    initd,   \* addresses of foreign memory that hold initialized bytes
    vals,    \* the OGVals that are live
    status,  \* "running", or the way the program ended
    last,    \* what the last completed operation handed back
    brand,   \* SpecBrand: OG_RUNTIME_BRANDING_CTR, the threads and the IDs made
    mem,     \* SpecMem: the bytes of foreign memory and the last write
    calc     \* SpecCalc: the arguments and the result of a function call

vars == <<cfg, stack, slot, initd, vals, status, last, brand, mem, calc>>

\* the variables that belong to other specifications than the MockRt program
other == <<brand, mem, calc>>

\* the value of a variable in the specifications that do not use it
Unused == <<>>

----------------------------------------------------------------------------
(* Bounds of the model *)

\* width of usize in the modelled machine
UsizeBits == 2
\* deepest nesting of closures explored by Spec
MaxDepth == 4
\* most OGVals alive at once
MaxVals == 1
\* deepest nesting explored by SpecRef
MaxRefDepth == 2
\* longest slice handed to a slice operation
MaxSliceLen == 1
\* deepest nesting explored by SpecOps
MaxOpsDepth == 1
\* deepest nesting explored by SpecTwo
MaxTwoDepth == 4
\* deepest nesting explored by SpecStacked
MaxStackedDepth == 2
\* longest slice or iterator handed to a stacked slice operation
MaxArrayLen == 2
\* deepest nesting of closures in SpecChain
MaxChainDepth == 5
\* width of OG_RUNTIME_BRANDING_CTR in the modelled machine (64 in the code)
CtrBits == 2
\* number of threads that call OGRuntimeBranding::new
NumThreads == 2
\* most imprints taken from one ID
MaxImprints == 2
\* bytes of foreign memory in the write/read-back model
MemSize == 3
\* largest value of one byte there
ByteMax == 1
\* longest source slice or iterator written to foreign memory
MaxSrcLen == 2
\* largest N of the arrays [T; N] that are validated
MaxValidateLen == 4
\* largest byte an element of such an array holds
MaxElemByte == 2
\* width of usize in the sub-reference model
SubBits == 7
\* alignments of T and U there are 2^0 .. 2^MaxAlignExp
MaxAlignExp == 4
\* sizes of T and U there are 0 .. MaxSizeUnits times the alignment
MaxSizeUnits == 4

(* Program constants *)

\* number of trampolines in MockRtCallbackTrampolinePool::CALLBACKS
NumCallbacks == 512
\* number of argument registers of MockRtCallbackContext
NumArgRegs == 6
\* number of return registers of MockRtCallbackReturn
NumRetRegs == 2

Modulus == 2 ^ UsizeBits
UsizeMax == Modulus - 1
Addr == 0 .. UsizeMax

None == [some |-> FALSE]

\* core::alloc::Layout / the size and alignment of a type T
Layouts == { [size |-> 0, align |-> 1],
             [size |-> 1, align |-> 1],
             [size |-> 2, align |-> 2] }

\* The two runtime instances of one ID type.  "A" is the instance whose
\* calls the model follows; "B" was created after it.
Runtimes == {"A", "B"}

----------------------------------------------------------------------------
(* Identity: OGRuntimeBranding *)

\* OGRuntimeBranding::new hands out the counter's value before the increment
branding_id(r) == IF r = "A" THEN 0 ELSE 1

get_imprint(r) == [id |-> branding_id(r)]

----------------------------------------------------------------------------
(* usize arithmetic *)

checked_add(a, b) == IF a + b > UsizeMax THEN None ELSE [some |-> TRUE, v |-> a + b]

wrapping_add(a, b) == (a + b) % Modulus

wrapping_mul(a, b) == (a * b) % Modulus

is_aligned(ptr, align) == ptr % align = 0

----------------------------------------------------------------------------
(* The allocation chain *)

NoSlot == [some |-> FALSE, head |-> 0, imprint |-> get_imprint("A"), stale |-> FALSE]

NoRegs == <<>>

Frame(kind, r, pred) ==
    [ kind    |-> kind,     \* "alloc", "setup", "cb" (chain nodes) or "exec"
      rt      |-> r,        \* the runtime whose call this is
      pred    |-> pred,     \* predecessor node in the chain
      ptr     |-> 0,        \* MockRtAllocation
      len     |-> 0,
      mutable |-> FALSE,
      via     |-> "",       \* the operation that made the allocation
      id      |-> 0,        \* Callback id
      saved   |-> NoSlot,   \* outer_alloc_chain_head_ref
      entry   |-> NoSlot,   \* the slot as it was when setup_callback was entered
      tramp   |-> 0,        \* CALLBACK_ID of the trampoline that was invoked
      closure |-> 0,        \* the registration whose closure runs
      args    |-> NoRegs,   \* a0..a5 as passed to the trampoline
      ctx     |-> NoRegs,   \* MockRtCallbackContext.arg_regs
      ret     |-> NoRegs,   \* MockRtCallbackReturn.return_regs
      want    |-> NoRegs,   \* what the closure asked to be returned
      acc     |-> 0,        \* the AccessScope object the closure can use
      ai      |-> get_imprint(r),   \* imprint of the AllocScope presented
      ci      |-> get_imprint(r) ]  \* imprint of the AccessScope presented

\* MockRtAllocChainIter: the nodes from n outward, n first, Base (0) last
RECURSIVE ChainNodes(_, _)
ChainNodes(st, n) ==
    IF n = 0 THEN <<0>> ELSE <<n>> \o ChainNodes(st, st[n].pred)

\* MockRtAllocation::matches, with the allocation's end computed in usize
matches_nolower(a, ptr, len, mutable) ==
    /\ LET e == checked_add(ptr, len)
       IN  e.some /\ e.v <= wrapping_add(a.ptr, a.len)
    /\ (~mutable \/ a.mutable)

matches(a, ptr, len, mutable) ==
    /\ ptr >= a.ptr
    /\ LET e == checked_add(ptr, len)
       IN  e.some /\ e.v <= wrapping_add(a.ptr, a.len)
    /\ (~mutable \/ a.mutable)

is_valid_int_head(st, n, ptr, len, mutable) ==
    IF n = 0
    THEN cfg.all_upgrades_valid
    ELSE st[n].kind = "alloc" /\ matches(st[n], ptr, len, mutable)

is_valid_int_stack(st, n, ptr, len, mutable) ==
    \/ cfg.all_upgrades_valid
    \/ \E k \in 1 .. n : st[k].kind = "alloc" /\ matches(st[k], ptr, len, mutable)

\* MockRtAllocChain::is_valid_int
RECURSIVE is_valid_int(_, _, _, _, _)
is_valid_int(st, n, ptr, len, mutable) ==
    IF n = 0
    THEN cfg.all_upgrades_valid
    ELSE \/ st[n].kind = "alloc" /\ matches(st[n], ptr, len, mutable)
         \/ is_valid_int(st, st[n].pred, ptr, len, mutable)

\* impl AllocTracker for MockRtAllocChain
is_valid(st, n, ptr, len) == is_valid_int(st, n, ptr, len, FALSE)

is_valid_mut(st, n, ptr, len) == is_valid_int(st, n, ptr, len, TRUE)

next_callback_id_zero(st, n) == 0

\* MockRtAllocChain::next_callback_id
RECURSIVE next_callback_id(_, _)
next_callback_id(st, n) ==
    IF n = 0 THEN 0
    ELSE IF st[n].kind = "setup" THEN st[n].id + 1
    ELSE next_callback_id(st, st[n].pred)

\* MockRtAllocChain::find_callback_descriptor: the node whose descriptor is
\* returned, 0 for None
RECURSIVE find_callback_descriptor_first(_, _, _)
find_callback_descriptor_first(st, n, id) ==
    IF n = 0 THEN 0
    ELSE IF st[n].kind = "setup" THEN n
    ELSE find_callback_descriptor_first(st, st[n].pred, id)

RECURSIVE find_callback_descriptor(_, _, _)
find_callback_descriptor(st, n, id) ==
    IF n = 0 THEN 0
    ELSE IF st[n].kind = "setup" /\ st[n].id = id THEN n
    ELSE find_callback_descriptor(st, st[n].pred, id)

----------------------------------------------------------------------------
(* Program state helpers *)

Running == [kind |-> "running", op |-> "", msg |-> "",
            a |-> get_imprint("A"), b |-> get_imprint("A"), c |-> get_imprint("A"),
            reads |-> 0, writes |-> 0, ran |-> FALSE,
            ri |-> get_imprint("A"), si |-> get_imprint("A")]

\* the program has ended in a panic raised by operation op
Panicked(op, msg, a, b, c, reads, writes, ran) ==
    [Running EXCEPT !.kind = "panic", !.op = op, !.msg = msg, !.a = a, !.b = b, !.c = c,
                    !.reads = reads, !.writes = writes, !.ran = ran]

NoLast == [op |-> "", res |-> "", reg0 |-> 0, reg1 |-> 0, want0 |-> 0, want1 |-> 0,
           kind |-> "", ptr |-> 0, ty |-> [size |-> 0, align |-> 1], len |-> 0,
           scope |-> 0, some |-> FALSE, rptr |-> 0, rlen |-> 0,
           rimprint |-> get_imprint("A"), simprint |-> get_imprint("A")]

Top == Len(stack)

\* host code is running (not foreign code, and the program has not ended)
HostRuns ==
    /\ status.kind = "running"
    /\ IF stack = <<>> THEN TRUE ELSE stack[Top].kind # "exec"

\* foreign code is running: the closure of execute is the innermost one
ForeignRuns == status.kind = "running" /\ stack # <<>> /\ stack[Top].kind = "exec"

\* the AllocScope the running host closure was handed (0: the one MockRt::new returned)
CurScope == Top

\* the AccessScope object the running host closure can use (0: the one MockRt::new returned)
CurAcc == IF stack = <<>> THEN 0 ELSE stack[Top].acc

\* the runtime whose scopes the running host closure holds
CurRt == IF stack = <<>> THEN "A" ELSE stack[Top].rt

\* A scope presented to an operation: the closure's own, or the one that
\* MockRt::new returned for the other runtime instance.
Tokens == {"own", "other"}

TokenRt(t) == IF t = "own" THEN CurRt ELSE IF CurRt = "A" THEN "B" ELSE "A"

TokenImprint(t) == get_imprint(TokenRt(t))

\* the AccessScope object behind a token (-1: the other instance's)
TokenAcc(t) == IF t = "own" THEN CurAcc ELSE 0 - 1

\* the bytes of [ptr, ptr + len)
Range(ptr, len) == { ptr + i : i \in 0 .. len - 1 }

LiveAllocs(st) == { i \in 1 .. Len(st) : st[i].kind = "alloc" }

LiveBytes(st) == UNION { Range(st[i].ptr, st[i].len) : i \in LiveAllocs(st) }

\* The program ends: nothing but the diagnostic is kept.
Panic(diag) ==
    /\ status' = diag
    /\ stack' = <<>>
    /\ slot' = NoSlot
    /\ initd' = {}
    /\ vals' = {}
    /\ last' = NoLast
    /\ UNCHANGED <<other, cfg>>

----------------------------------------------------------------------------
(* The borrow discipline of the scope markers.  A reference or OGVal is   *)
(* bound to a borrow of the AllocScope it was upgraded from ('alloc) and   *)
(* an OGVal to a borrow of the AccessScope it was created under ('access). *)

\* the borrow of AccessScope an operation's signature asks for
AccessBorrow(op) ==
    IF op \in {"write", "write_ref", "write_copy", "write_from_iter", "copy_from_slice"}
    THEN "unique" ELSE "shared"

\* execute takes `access_scope: &mut AccessScope<Self::ID>`
ExecuteAccessBorrow_shared == "shared"

ExecuteAccessBorrow == "unique"

\* whether AccessScope object o can be borrowed in the given mode
AccessFree(o, mode) ==
    IF mode = "unique"
    THEN \A v \in vals : v.obj # o
    ELSE \A v \in vals : v.obj = o => v.mode = "shared"

\* omniglot::ALLOC_SCOPE_SEPARATE_ACTIVE_VALID_LT: whether the build has the
\* alloc_scope_separate_active_valid_lt feature
ALLOC_SCOPE_SEPARATE_ACTIVE_VALID_LT == cfg.separate_lt

\* whether AllocScope s can be borrowed uniquely: without the feature,
\* UpgradeAllocScopeTy binds every reference to a shared borrow of the scope
\* it was upgraded from
AllocFree(s) == ALLOC_SCOPE_SEPARATE_ACTIVE_VALID_LT \/ \A v \in vals : v.scope # s

\* an operation returned Err(OGError::IDMismatch): nothing else changes
ErrIDMismatch(op) ==
    /\ last' = [NoLast EXCEPT !.op = op, !.res = "IDMismatch"]
    /\ UNCHANGED <<other, cfg, stack, slot, initd, vals, status>>

\* the OGVals that end with the closure of frame k
Ended(k) == { v \in vals : v.scope >= k \/ v.obj >= k }

----------------------------------------------------------------------------
(* MockRt: stacked allocation *)

\* MockRtAllocator::with_alloc: the backend rejects a layout it cannot serve
\* (a zero-length allocation) and otherwise hands the closure a block of
\* initialized bytes that is aligned, does not wrap around the address space
\* and overlaps no block that is still allocated.
layout_rejected(ly) == ly.size = 0

Placements(st, ly) ==
    { q \in Addr : /\ is_aligned(q, ly.align)
                   /\ q + ly.size <= UsizeMax
                   /\ Range(q, ly.size) \cap LiveBytes(st) = {} }

\* allocate_stacked_untracked_mut: the OGError for the allocator's error
map_err_keep(e) == e

map_err(e) == IF e = "InvalidLayout" THEN "AllocInvalidLayout" ELSE "InternalError"

AllocationFrame_base(r, pred, q, len, mutable, via, acc) ==
    [Frame("alloc", r, 0) EXCEPT !.ptr = q, !.len = len, !.mutable = mutable,
                                 !.via = via, !.acc = acc]

\* the Allocation node that allocate_stacked_mut and allocate_stacked_t_mut build
AllocationFrame(r, pred, q, len, mutable, via, acc) ==
    [Frame("alloc", r, pred) EXCEPT !.ptr = q, !.len = len, !.mutable = mutable,
                                    !.via = via, !.acc = acc]

\* MockRt::allocate_stacked_mut (with allocate_stacked_untracked_mut), up to
\* the point where fun runs
AllocateStackedMut(d, ly, ta) ==
    /\ HostRuns
    /\ Top < d
    /\ ta = "own" => AllocFree(CurScope)
    /\ IF get_imprint(CurRt) # TokenImprint(ta)
       THEN ErrIDMismatch("allocate_stacked_mut")
       ELSE IF layout_rejected(ly)
       THEN /\ last' = [NoLast EXCEPT !.op = "allocate_stacked_mut",
                                      !.res = map_err("InvalidLayout")]
            /\ UNCHANGED <<other, cfg, stack, slot, initd, vals, status>>
       ELSE \E q \in Placements(stack, ly) :
            /\ stack' = Append(stack,
                    [AllocationFrame(CurRt, CurScope, q, ly.size, TRUE,
                                     "allocate_stacked_mut", CurAcc)
                     EXCEPT !.ai = TokenImprint(ta)])
            /\ initd' = initd \cup Range(q, ly.size)
            /\ last' = NoLast
            /\ UNCHANGED <<other, cfg, slot, vals, status>>

\* MockRt::allocate_stacked_t_mut: the allocation is a MaybeUninit::<T>::uninit()
\* cell of the host stack
AllocateStackedTMut(d, ty, ta) ==
    /\ HostRuns
    /\ Top < d
    /\ ta = "own" => AllocFree(CurScope)
    /\ IF get_imprint(CurRt) # TokenImprint(ta)
       THEN ErrIDMismatch("allocate_stacked_t_mut")
       ELSE
       \E q \in Placements(stack, ty) :
       /\ stack' = Append(stack,
               [AllocationFrame(CurRt, CurScope, q, ty.size, TRUE,
                                "allocate_stacked_t_mut", CurAcc)
                EXCEPT !.ai = TokenImprint(ta)])
       /\ initd' = initd \ Range(q, ty.size)
       /\ last' = NoLast
       /\ UNCHANGED <<other, cfg, slot, vals, status>>

\* MockRt::write_stacked_t, up to the point where fun runs: the value is kept
\* in place and tracked as immutable (zero_copy_immutable), or written into a
\* fresh mutable allocation (write_stacked_t_mut)
WriteStackedT(d, ty, ta, tc) ==
    /\ HostRuns
    /\ Top < d
    /\ ta = "own" => AllocFree(CurScope)
    /\ AccessFree(TokenAcc(tc), "unique")
    /\ IF get_imprint(CurRt) # TokenImprint(ta) \/ get_imprint(CurRt) # TokenImprint(tc)
       THEN ErrIDMismatch("write_stacked_t")
       ELSE
       \E q \in Placements(stack, ty) :
       /\ stack' = Append(stack,
               [AllocationFrame(CurRt, CurScope, q, ty.size, ~cfg.zero_copy_immutable,
                                "write_stacked_t", CurAcc)
                EXCEPT !.ai = TokenImprint(ta), !.ci = TokenImprint(tc)])
       /\ initd' = initd \cup Range(q, ty.size)
       /\ last' = NoLast
       /\ UNCHANGED <<other, cfg, slot, vals, status>>

----------------------------------------------------------------------------
(* MockRt: callbacks *)

Some(head, imprint) == [some |-> TRUE, head |-> head, imprint |-> imprint, stale |-> FALSE]

\* MockRt::setup_callback and setup_callback_int, up to the point where fun runs
SetupCallback(d, ta) ==
    /\ HostRuns
    /\ Top < d
    /\ ta = "own" => AllocFree(CurScope)
    /\ LET callback_id == next_callback_id(stack, CurScope)
           node == [Frame("setup", CurRt, CurScope) EXCEPT
                        !.id = callback_id, !.saved = slot, !.entry = slot,
                        !.acc = CurAcc, !.ai = TokenImprint(ta)]
       IN  IF get_imprint(CurRt) # TokenImprint(ta)
           THEN ErrIDMismatch("setup_callback")
           ELSE IF callback_id >= NumCallbacks
           THEN \* CALLBACKS[callback_id] is out of bounds
                Panic(Panicked("setup_callback", "index out of bounds",
                               get_imprint(CurRt), get_imprint(CurRt), get_imprint(CurRt),
                               0, 0, FALSE))
           ELSE /\ stack' = Append(stack, node)
                /\ slot' = Some(Top + 1, get_imprint(CurRt))
                /\ last' = NoLast
                /\ UNCHANGED <<other, cfg, initd, vals, status>>

\* the imprint comparison at the head of MockRt::execute
execute_scopes_match_alloc_only(id_imprint, ai, ci) == id_imprint = ai

execute_scopes_match(id_imprint, ai, ci) == id_imprint = ai /\ id_imprint = ci

\* MockRt::execute, up to the point where f runs
Execute(d, ta, tc) ==
    /\ HostRuns
    /\ Top < d
    /\ ta = "own" => AllocFree(CurScope)
    /\ AccessFree(TokenAcc(tc), ExecuteAccessBorrow)
    /\ IF ~execute_scopes_match(get_imprint(CurRt), TokenImprint(ta), TokenImprint(tc))
       THEN Panic(Panicked("execute", "ID mismatch", get_imprint(CurRt),
                           TokenImprint(ta), TokenImprint(tc), 0, 0, FALSE))
       ELSE /\ stack' = Append(stack, [Frame("exec", CurRt, CurScope) EXCEPT
                                          !.acc = CurAcc,
                                          !.ai = TokenImprint(ta),
                                          !.ci = TokenImprint(tc)])
            /\ last' = NoLast
            /\ UNCHANGED <<other, cfg, slot, initd, vals, status>>

\* the runtime whose imprint is i
RtOf(i) == CHOOSE r \in Runtimes : get_imprint(r) = i

\* MockRtCallbackContext as built by mock_rt_callback_trampoline
arg_regs(a) == << a[1], a[2], a[3], a[4], a[5], a[6] >>

\* MockRtCallbackContext::get_argument_register
get_argument_register(ctx, reg) ==
    IF reg < Len(ctx) THEN [some |-> TRUE, v |-> ctx[reg + 1]] ELSE None

\* MockRtCallbackReturn::set_return_register: the registers afterwards
set_return_register(regs, reg, value) ==
    IF reg < Len(regs) THEN [regs EXCEPT ![reg + 1] = value] ELSE regs

\* the argument patterns foreign code passes
ArgPatterns == { <<1, 2, 3, 4, 5, 6>>, <<0, 0, 0, 0, 0, 7>> }

\* mock_rt_callback_trampoline::<id> called by foreign code, through
\* mock_rt_callback_dispatch, up to the point where the closure runs
TrampolineCall(d, id, a) ==
    /\ ForeignRuns
    /\ Top < d
    /\ IF ~slot.some
       THEN Panic(Panicked("trampoline", "unwrap on None", get_imprint("A"),
                           get_imprint("A"), get_imprint("A"), 0, 0, FALSE))
       ELSE IF slot.stale
       THEN \* the chain head pointer dangles
            Panic([Panicked("trampoline", "", get_imprint("A"), get_imprint("A"),
                            get_imprint("A"), 0, 0, FALSE) EXCEPT !.kind = "ub"])
       ELSE LET desc == find_callback_descriptor(stack, slot.head, id)
            IN  IF desc = 0
                THEN Panic(Panicked("trampoline", "Callback not found!", get_imprint("A"),
                                    get_imprint("A"), get_imprint("A"), 0, 0, FALSE))
                ELSE /\ stack' = Append(stack,
                            [Frame("cb", RtOf(slot.imprint), slot.head) EXCEPT
                                !.tramp = id, !.closure = desc, !.args = a,
                                !.ctx = arg_regs(a),
                                !.ret = [i \in 1 .. NumRetRegs |-> 0],
                                !.want = [i \in 1 .. NumRetRegs |-> 0],
                                !.acc = Top + 1])
                     /\ last' = NoLast
                     /\ UNCHANGED <<other, cfg, slot, initd, vals, status>>

\* the running callback closure calls set_return_register(reg, value)
SetReturnRegister(reg, value) ==
    /\ HostRuns
    /\ stack # <<>>
    /\ stack[Top].kind = "cb"
    /\ stack' = [stack EXCEPT
                    ![Top].ret = set_return_register(@, reg, value),
                    ![Top].want = IF reg < NumRetRegs THEN [@ EXCEPT ![reg + 1] = value]
                                                      ELSE @]
    /\ last' = NoLast
    /\ UNCHANGED <<other, cfg, slot, initd, vals, status>>

----------------------------------------------------------------------------
(* Closures return *)

\* the slot after the frame at index k is gone: a pointer to it dangles
Dangle(sl, k) == IF sl.some /\ sl.head >= k THEN [sl EXCEPT !.stale = TRUE] ELSE sl

\* setup_callback_int after fun: the slot is put back
restore_slot_keep(cur, saved) == cur

restore_slot(cur, saved) == saved

\* CallbackTrampolineFnReturn as built by mock_rt_callback_trampoline
trampoline_return_swapped(regs) == [reg0 |-> regs[2], reg1 |-> regs[1]]

trampoline_return(regs) == [reg0 |-> regs[1], reg1 |-> regs[2]]

\* the innermost closure returns
Return ==
    /\ status.kind = "running"
    /\ stack # <<>>
    /\ LET f == stack[Top]
           sl == IF f.kind = "setup" THEN restore_slot(slot, f.saved) ELSE slot
       IN  /\ stack' = SubSeq(stack, 1, Top - 1)
           /\ slot' = Dangle(sl, Top)
           /\ initd' = IF f.kind = "alloc" THEN initd \ Range(f.ptr, f.len) ELSE initd
           /\ vals' = vals \ Ended(Top)
           /\ last' = IF f.kind = "cb"
                      THEN [NoLast EXCEPT !.op = "trampoline",
                                          !.reg0 = trampoline_return(f.ret).reg0,
                                          !.reg1 = trampoline_return(f.ret).reg1,
                                          !.want0 = f.want[1],
                                          !.want1 = f.want[2]]
                      ELSE NoLast
    /\ UNCHANGED <<other, cfg, status>>

----------------------------------------------------------------------------
(* References into foreign memory *)

\* foreign_memory::DISABLE_UPGRADE_CHECKS and DISABLE_VALIDATION_CHECKS
DISABLE_UPGRADE_CHECKS == FALSE

DISABLE_VALIDATION_CHECKS == FALSE

IsSlice(kind) == kind \in {"OGSlice", "OGMutSlice"}

\* whether upgrade_from_ptr of this kind asks the tracker is_valid_mut
RefMutable_never(kind) == FALSE

RefMutable(kind) == kind \in {"OGMutRef", "OGMutSlice"}

\* the types T of the references: size_of::<T>() and align_of::<T>()
Types == { ty \in Layouts : ty.size > 0 }

\* AllocScope::id_imprint of the scope of chain node n
scope_imprint(st, n) == IF n = 0 THEN get_imprint("A") ELSE get_imprint(st[n].rt)

\* upgrade_from_ptr of OGRef, OGMutRef, OGSlice and OGMutSlice against the
\* scope of chain node n; length is 1 for the scalar kinds
upgrade_from_ptr(kind, st, n, ptr, ty, length) ==
    LET bytes == IF IsSlice(kind) THEN wrapping_mul(length, ty.size) ELSE ty.size
        ok == /\ is_aligned(ptr, ty.align)
              /\ is_valid_int(st, n, ptr, bytes, RefMutable(kind))
    IN  IF DISABLE_UPGRADE_CHECKS \/ ok
        THEN [some |-> TRUE, ptr |-> ptr, len |-> length, size |-> ty.size,
              kind |-> kind, imprint |-> scope_imprint(st, n)]
        ELSE None

\* the operations of each kind of reference that take an AccessScope
OpsOf(kind) ==
    CASE kind = "OGRef"      -> {"validate", "valid", "assume_valid", "copy"}
      [] kind = "OGMutRef"   -> {"validate", "valid", "assume_valid", "copy",
                                 "write", "write_ref", "write_copy"}
      [] kind = "OGSlice"    -> {"validate", "valid", "assume_valid"}
      [] kind = "OGMutSlice" -> {"validate", "valid", "assume_valid",
                                 "write_from_iter", "copy_from_slice"}

WriteOps == {"write", "write_ref", "write_copy", "write_from_iter", "copy_from_slice"}

Min(a, b) == IF a < b THEN a ELSE b

\* an operation returned: what it read and wrote, and whether it handed out an OGVal
Returned(reads, writes, val) ==
    [msg |-> "", reads |-> reads, writes |-> writes, val |-> val]

\* an operation panicked after reading and writing these bytes
Aborted(msg, reads, writes) ==
    [msg |-> msg, reads |-> reads, writes |-> writes, val |-> FALSE]

\* check_scopes_imprint_panic
IDMismatchPanic == Aborted("ID mismatch", {}, {})

AssertCount == "assertion failed: count == self.len()"

\* check_access_scope_imprint: whether it returns
check_access_scope_imprint(ref_imprint, scope_imprint_) == ref_imprint = scope_imprint_

\* the bytes of the first k elements of reference r
Elems(r, k) == Range(r.ptr, k * r.size)

\* One operation of reference r under an AccessScope of imprint si.
\* n: the number of items the source of a slice write yields;
\* bad: the index of the first element whose bytes are not a valid T (r.len if none).
RefOutcome(op, r, n, bad, si) ==
    LET m == check_access_scope_imprint(r.imprint, si)
        all == Elems(r, r.len)
        count == Min(r.len, n)
    IN  CASE op \in {"valid", "assume_valid"} ->
                IF m THEN Returned({}, {}, TRUE) ELSE IDMismatchPanic
          [] op = "validate" ->
                IF ~m THEN IDMismatchPanic
                ELSE IF DISABLE_VALIDATION_CHECKS THEN Returned({}, {}, TRUE)
                ELSE Returned(Elems(r, Min(bad + 1, r.len)), {}, bad >= r.len)
          [] op = "copy" ->
                IF m THEN Returned(all, {}, FALSE) ELSE IDMismatchPanic
          [] op \in {"write", "write_ref"} ->
                IF m THEN Returned({}, all, TRUE) ELSE IDMismatchPanic
          [] op = "write_copy" ->
                IF m THEN Returned({}, all, FALSE) ELSE IDMismatchPanic
          [] op = "write_from_iter" ->
                IF ~m THEN IDMismatchPanic
                ELSE IF count # r.len THEN Aborted(AssertCount, {}, Elems(r, count))
                ELSE Returned({}, all, TRUE)
          [] op = "copy_from_slice" ->
                \* each element is written with write_ref, which checks the scope
                IF count >= 1 /\ ~m THEN IDMismatchPanic
                ELSE IF count # r.len THEN Aborted(AssertCount, {}, Elems(r, count))
                ELSE IF ~m THEN IDMismatchPanic
                ELSE Returned({}, all, TRUE)

Set(sq) == { sq[i] : i \in 1 .. Len(sq) }

\* the scopes whose references the running host closure can hold: its own
\* and, when references are not bound to a borrow of their scope, those of
\* the enclosing closures
HeldScopes ==
    IF ALLOC_SCOPE_SEPARATE_ACTIVE_VALID_LT THEN Set(ChainNodes(stack, CurScope))
                                            ELSE {CurScope}

Lengths(kind) == IF IsSlice(kind) THEN 0 .. MaxSliceLen ELSE {1}

\* Host code upgrades a pointer against the scope its closure was handed
Upgrade(kind, n, ptr, ty, length) ==
    /\ HostRuns
    /\ n = CurScope
    /\ length \in Lengths(kind)
    /\ LET r == upgrade_from_ptr(kind, stack, n, ptr, ty, length)
       IN  last' = [NoLast EXCEPT !.op = "upgrade_from_ptr", !.kind = kind, !.ptr = ptr,
                                  !.ty = ty, !.len = length, !.scope = n,
                                  !.some = r.some,
                                  !.rptr = IF r.some THEN r.ptr ELSE 0,
                                  !.rlen = IF r.some THEN r.len ELSE 0,
                                  !.rimprint = IF r.some THEN r.imprint ELSE get_imprint("A")]
    /\ UNCHANGED <<other, cfg, stack, slot, initd, vals, status>>

\* Host code applies an operation to a reference it upgraded against scope n,
\* presenting the AccessScope named by token tc
RefOp(kind, op, n, ptr, ty, length, srcn, bad, tc) ==
    /\ HostRuns
    /\ n \in HeldScopes
    /\ length \in Lengths(kind)
    /\ op \in OpsOf(kind)
    /\ bad \in 0 .. length
    /\ upgrade_from_ptr(kind, stack, n, ptr, ty, length).some
    /\ AccessFree(TokenAcc(tc), AccessBorrow(op))
    /\ LET r == upgrade_from_ptr(kind, stack, n, ptr, ty, length)
           si == TokenImprint(tc)
           out == RefOutcome(op, r, srcn, bad, si)
           val == [obj |-> TokenAcc(tc), scope |-> n, mode |-> AccessBorrow(op)]
       IN  IF out.msg # ""
           THEN Panic([Panicked(op, out.msg,
                                IF out = IDMismatchPanic THEN r.imprint ELSE get_imprint("A"),
                                IF out = IDMismatchPanic THEN si ELSE get_imprint("A"),
                                get_imprint("A"),
                                Cardinality(out.reads), Cardinality(out.writes), FALSE)
                         EXCEPT !.ri = r.imprint, !.si = si])
           ELSE /\ out.val => Cardinality(vals \cup {val}) <= MaxVals
                /\ vals' = IF out.val THEN vals \cup {val} ELSE vals
                /\ initd' = initd \cup (out.writes \cap Addr)
                /\ last' = [NoLast EXCEPT !.op = op,
                                          !.res = IF out.val THEN "Val" ELSE "",
                                          !.rimprint = r.imprint, !.simprint = si]
                /\ UNCHANGED <<other, cfg, stack, slot, status>>

\* an OGVal is dropped
DropVal(v) ==
    /\ status.kind = "running"
    /\ v \in vals
    /\ vals' = vals \ {v}
    /\ last' = NoLast
    /\ UNCHANGED <<other, cfg, stack, slot, initd, status>>

----------------------------------------------------------------------------
(* The program *)

\* the settings of MockRt::new
Configs == [zero_copy_immutable : BOOLEAN, all_upgrades_valid : BOOLEAN,
            separate_lt : BOOLEAN]

\* MockRt::new(zero_copy_immutable, all_upgrades_valid, allocator, branding)
\* in a build with or without alloc_scope_separate_active_valid_lt: the chain
\* is Base(all_upgrades_valid) and nothing runs yet
InitWith(configs) ==
    /\ cfg \in configs
    /\ stack = <<>>
    /\ slot = NoSlot
    /\ initd = {}
    /\ vals = {}
    /\ status = Running
    /\ last = NoLast
    /\ brand = Unused
    /\ mem = Unused
    /\ calc = Unused

\* Spec: callbacks and foreign calls, with byte-sized mutable allocations
Init == InitWith({ c \in Configs : ~c.zero_copy_immutable })

\* the layouts the host of Spec allocates
SpecLayouts == { ly \in Layouts : ly.size <= 1 }

\* the pointers the host of Spec turns into references
SpecPtrs == {0}

Next ==
    \/ \E ly \in SpecLayouts, ta \in Tokens : AllocateStackedMut(MaxDepth, ly, ta)
    \/ \E ta \in Tokens : SetupCallback(MaxDepth, ta)
    \/ \E ta \in Tokens, tc \in Tokens : Execute(MaxDepth, ta, tc)
    \/ \E id \in 0 .. MaxDepth, a \in ArgPatterns : TrampolineCall(MaxDepth, id, a)
    \/ \E reg \in 0 .. NumRetRegs, value \in {7} : SetReturnRegister(reg, value)
    \/ \E op \in {"validate", "write"}, n \in 0 .. MaxDepth, ptr \in SpecPtrs,
          ty \in SpecLayouts \cap Types, bad \in 0 .. 1 :
          RefOp("OGMutRef", op, n, ptr, ty, 1, 1, bad, "own")
    \/ \E v \in vals : DropVal(v)
    \/ Return

Spec == Init /\ [][Next]_vars

\* SpecRef: nested stacked allocation and upgrade_from_ptr
InitRef == InitWith({ c \in Configs : ~c.separate_lt })

NextRef ==
    \/ \E ly \in Layouts, ta \in Tokens : AllocateStackedMut(MaxRefDepth, ly, ta)
    \/ \E ty \in Types, ta \in Tokens : AllocateStackedTMut(MaxRefDepth, ty, ta)
    \/ \E ty \in Types, ta \in Tokens, tc \in Tokens : WriteStackedT(MaxRefDepth, ty, ta, tc)
    \/ \E kind \in {"OGRef", "OGMutRef"}, n \in 0 .. MaxRefDepth, ptr \in Addr, ty \in Types :
          Upgrade(kind, n, ptr, ty, 1)
    \/ Return

SpecRef == InitRef /\ [][NextRef]_vars

\* SpecOps: the operations of the references, under the AccessScope of the
\* reference's own runtime or of the other one
NextOps ==
    \/ \E ly \in Layouts, ta \in Tokens : AllocateStackedMut(MaxOpsDepth, ly, ta)
    \/ \E kind \in {"OGRef", "OGMutRef", "OGSlice", "OGMutSlice"} :
       \E op \in OpsOf(kind), length \in Lengths(kind) :
       \E n \in HeldScopes, ptr \in SpecPtrs, ty \in Types,
          srcn \in (IF op \in {"write_from_iter", "copy_from_slice"}
                    THEN 0 .. MaxSliceLen ELSE {0}),
          bad \in (IF op = "validate" THEN 0 .. length ELSE {length}),
          tc \in Tokens :
          RefOp(kind, op, n, ptr, ty, length, srcn, bad, tc)
    \/ \E v \in vals : DropVal(v)
    \/ Return

SpecOps == Init /\ [][NextOps]_vars

\* SpecDeep: setup_callback nested until the trampoline pool is used up
InitDeep == InitWith({ c \in Configs : ~c.zero_copy_immutable /\ ~c.separate_lt })

NextDeep ==
    \/ \E ta \in Tokens : SetupCallback(NumCallbacks + 1, ta)
    \/ Return

SpecDeep == InitDeep /\ [][NextDeep]_vars

\* SpecChain: chains of every kind of node, with mutable and immutable
\* allocations, callbacks and the scopes made by dispatch
NextChain ==
    \/ \E ly \in Layouts, ta \in Tokens : AllocateStackedMut(MaxChainDepth, ly, ta)
    \/ \E ty \in Types, ta \in Tokens, tc \in Tokens : WriteStackedT(MaxChainDepth, ty, ta, tc)
    \/ \E ta \in Tokens : SetupCallback(MaxChainDepth, ta)
    \/ \E ta \in Tokens, tc \in Tokens : Execute(MaxChainDepth, ta, tc)
    \/ \E id \in 0 .. MaxChainDepth : TrampolineCall(MaxChainDepth, id, <<1, 2, 3, 4, 5, 6>>)
    \/ Return

SpecChain == InitRef /\ [][NextChain]_vars

\* SpecSlice: slices of every length a usize holds are upgraded against the
\* scope of the running closure.  oc is whether the build checks arithmetic
\* overflow: the product length * size_of::<T>() is evaluated after the
\* alignment test and panics in such a build when it does not fit in usize
UpgradeSlice(kind, n, ptr, ty, length, oc) ==
    /\ HostRuns
    /\ n = CurScope
    /\ IF oc /\ is_aligned(ptr, ty.align) /\ length * ty.size > UsizeMax
       THEN Panic(Panicked("upgrade_from_ptr", "attempt to multiply with overflow",
                           get_imprint("A"), get_imprint("A"), get_imprint("A"),
                           0, 0, FALSE))
       ELSE /\ LET r == upgrade_from_ptr(kind, stack, n, ptr, ty, length)
               IN  last' = [NoLast EXCEPT !.op = "upgrade_from_ptr", !.kind = kind,
                                          !.ptr = ptr, !.ty = ty, !.len = length,
                                          !.scope = n, !.some = r.some,
                                          !.rptr = IF r.some THEN r.ptr ELSE 0,
                                          !.rlen = IF r.some THEN r.len ELSE 0,
                                          !.rimprint = IF r.some THEN r.imprint
                                                       ELSE get_imprint("A")]
            /\ UNCHANGED <<other, cfg, stack, slot, initd, vals, status>>

NextSlice ==
    \/ \E ly \in Layouts, ta \in Tokens : AllocateStackedMut(MaxRefDepth, ly, ta)
    \/ \E ty \in Types, ta \in Tokens, tc \in Tokens : WriteStackedT(MaxRefDepth, ty, ta, tc)
    \/ \E kind \in {"OGSlice", "OGMutSlice"}, n \in 0 .. MaxRefDepth, ptr \in Addr,
          ty \in Types, length \in 0 .. UsizeMax, oc \in BOOLEAN :
          UpgradeSlice(kind, n, ptr, ty, length, oc)
    \/ Return

SpecSlice == InitRef /\ [][NextSlice]_vars

----------------------------------------------------------------------------
(* SpecStacked: the stacked operations that OGRuntime provides on top of   *)
(* allocate_stacked_mut, and those MockRt overrides                        *)

\* isize::MAX of the modelled machine
IsizeMax == 2 ^ (UsizeBits - 1) - 1

\* the result of a stacked operation up to the point where fun would run
Ok(size, mutable) ==
    [res |-> "Ok", msg |-> "", alloc |-> TRUE, size |-> size, mutable |-> mutable]

Err(e) == [res |-> e, msg |-> "", alloc |-> FALSE, size |-> 0, mutable |-> FALSE]

\* a panic, before or after the allocation was made
Fault(msg, alloc, size) ==
    [res |-> "panic", msg |-> msg, alloc |-> alloc, size |-> size, mutable |-> TRUE]

\* core::alloc::Layout::array::<T>(len): whether it is Ok
layout_array_ok(ty, len) == len * ty.size <= IsizeMax - (ty.align - 1)

\* MockRt::allocate_stacked_mut, for rt imprint i and a scope of imprint ai
allocate_stacked_mut(i, ly, ai) ==
    IF i # ai THEN Err("IDMismatch")
    ELSE IF layout_rejected(ly) THEN Err(map_err("InvalidLayout"))
    ELSE Ok(ly.size, TRUE)

\* MockRt::allocate_stacked_t_mut: a cell of the host stack
allocate_stacked_t_mut(i, ty, ai) ==
    IF i # ai THEN Err("IDMismatch") ELSE Ok(ty.size, TRUE)

\* OGRuntime::allocate_stacked_slice_mut
allocate_stacked_slice_mut(i, ty, len, ai) ==
    IF ~layout_array_ok(ty, len)
    THEN Fault("called Result::unwrap() on an Err value: LayoutError", FALSE, 0)
    ELSE allocate_stacked_mut(i, [size |-> len * ty.size, align |-> ty.align], ai)

\* OGRuntime::write_stacked_t_mut and write_stacked_ref_t_mut: the closure
\* handed to allocate_stacked_t_mut writes through the allocation first
write_stacked_t_mut(i, ty, ai, ci) ==
    LET a == allocate_stacked_t_mut(i, ty, ai)
    IN  IF a.res # "Ok" THEN a
        ELSE IF ~check_access_scope_imprint(ai, ci) THEN Fault("ID mismatch", TRUE, a.size)
        ELSE a

\* OGRuntime::write_stacked_slice_from_iter_mut: src reports len items and
\* yields srcn; the closure handed to allocate_stacked_slice_mut calls
\* write_from_iter first
write_stacked_slice_from_iter_mut(i, ty, len, srcn, ai, ci) ==
    LET a == allocate_stacked_slice_mut(i, ty, len, ai)
    IN  IF a.res # "Ok" THEN a
        ELSE IF ~check_access_scope_imprint(ai, ci) THEN Fault("ID mismatch", TRUE, a.size)
        ELSE IF Min(len, srcn) # len THEN Fault(AssertCount, TRUE, a.size)
        ELSE a

write_stacked_ref_t_copying(i, zc, ty, ai, ci) ==
    IF i # ai \/ i # ci THEN Err("IDMismatch")
    ELSE write_stacked_t_mut(i, ty, ai, ci)

\* MockRt::write_stacked_ref_t
write_stacked_ref_t(i, zc, ty, ai, ci) ==
    IF i # ai \/ i # ci THEN Err("IDMismatch")
    ELSE IF zc THEN Ok(ty.size, FALSE)
    ELSE write_stacked_t_mut(i, ty, ai, ci)

\* MockRt::write_stacked_slice
write_stacked_slice(i, zc, ty, len, ai, ci) ==
    IF i # ai \/ i # ci THEN Err("IDMismatch")
    ELSE IF zc THEN Ok(ty.size * len, FALSE)
    ELSE write_stacked_slice_from_iter_mut(i, ty, len, len, ai, ci)

\* those whose source is an iterator, which may yield fewer or more items
\* than its ExactSizeIterator::len reports
IterStackedOps == {"write_stacked_slice_from_iter", "write_stacked_slice_from_iter_mut"}

\* those whose source is a slice &[T]: it yields as many items as it holds,
\* and its size in bytes is at most isize::MAX
SliceSourceOps == {"write_stacked_slice", "write_stacked_slice_mut"}

\* the outcome of each operation, as OGRuntime and MockRt define it
StackedOutcome(op, i, zc, ty, len, srcn, ai, ci) ==
    CASE op \in {"write_stacked_t_mut", "write_stacked_ref_t_mut"} ->
            write_stacked_t_mut(i, ty, ai, ci)
      [] op = "write_stacked_ref_t" -> write_stacked_ref_t(i, zc, ty, ai, ci)
      [] op = "allocate_stacked_slice_mut" -> allocate_stacked_slice_mut(i, ty, len, ai)
      [] op = "write_stacked_slice" -> write_stacked_slice(i, zc, ty, len, ai, ci)
      [] op = "write_stacked_slice_mut" ->
            write_stacked_slice_from_iter_mut(i, ty, len, len, ai, ci)
      [] op \in IterStackedOps ->
            write_stacked_slice_from_iter_mut(i, ty, len, srcn, ai, ci)

\* Host code calls one of these operations of its runtime, presenting the
\* AllocScope named by ta and the AccessScope named by tc; up to the point
\* where fun runs
StackedOp(d, op, ty, len, srcn, ta, tc) ==
    /\ HostRuns
    /\ Top < d
    /\ ta = "own" => AllocFree(CurScope)
    /\ op # "allocate_stacked_slice_mut" => AccessFree(TokenAcc(tc), "unique")
    /\ op \in SliceSourceOps => (srcn = len /\ layout_array_ok(ty, len))
    /\ LET i == get_imprint(CurRt)
           ai == TokenImprint(ta)
           ci == IF op = "allocate_stacked_slice_mut" THEN i ELSE TokenImprint(tc)
           out == StackedOutcome(op, i, cfg.zero_copy_immutable, ty, len, srcn, ai, ci)
       IN  CASE out.res = "panic" ->
                    Panic([Panicked(op, out.msg, i, ai, ci, 0, 0, FALSE)
                           EXCEPT !.ri = ai, !.si = ci])
             [] out.res = "Ok" ->
                    \E q \in Placements(stack, [size |-> out.size, align |-> ty.align]) :
                       /\ stack' = Append(stack,
                               [AllocationFrame(CurRt, CurScope, q, out.size, out.mutable,
                                                op, CurAcc)
                                EXCEPT !.ai = ai, !.ci = ci])
                       /\ initd' = initd \cup Range(q, out.size)
                       /\ last' = NoLast
                       /\ UNCHANGED <<other, cfg, slot, vals, status>>
             [] OTHER ->
                    /\ last' = [NoLast EXCEPT !.op = op, !.res = out.res]
                    /\ UNCHANGED <<other, cfg, stack, slot, initd, vals, status>>

\* the types of SpecStacked: those the modelled machine can hold
StackedTypes == { ty \in Types : ty.size <= IsizeMax }

NextStacked ==
    \/ \E ly \in Layouts, ta \in Tokens : AllocateStackedMut(MaxStackedDepth, ly, ta)
    \/ \E ty \in StackedTypes, ta \in Tokens : AllocateStackedTMut(MaxStackedDepth, ty, ta)
    \/ \E ty \in StackedTypes, ta \in Tokens, tc \in Tokens :
          WriteStackedT(MaxStackedDepth, ty, ta, tc)
    \/ \E ta \in Tokens : SetupCallback(MaxStackedDepth, ta)
    \/ \E op \in {"write_stacked_t_mut", "write_stacked_ref_t", "write_stacked_ref_t_mut"},
          ty \in StackedTypes, ta \in Tokens, tc \in Tokens :
          StackedOp(MaxStackedDepth, op, ty, 1, 1, ta, tc)
    \/ \E ty \in StackedTypes, len \in 0 .. MaxArrayLen, ta \in Tokens :
          StackedOp(MaxStackedDepth, "allocate_stacked_slice_mut", ty, len, len, ta, "own")
    \/ \E op \in SliceSourceOps, ty \in StackedTypes, len \in 0 .. MaxArrayLen,
          ta \in Tokens, tc \in Tokens :
          StackedOp(MaxStackedDepth, op, ty, len, len, ta, tc)
    \/ \E op \in IterStackedOps, ty \in StackedTypes, len \in 0 .. MaxArrayLen,
          srcn \in 0 .. MaxArrayLen, ta \in Tokens, tc \in Tokens :
          StackedOp(MaxStackedDepth, op, ty, len, srcn, ta, tc)
    \/ Return

SpecStacked ==
    InitWith({ c \in Configs : ~c.separate_lt /\ ~c.all_upgrades_valid }) /\ [][NextStacked]_vars

----------------------------------------------------------------------------
(* SpecTwo: two MockRt instances of one ID type, used by one host program *)

\* the AllocScope of runtime r that the running closure holds: the one handed
\* to the innermost running closure of r, or the one MockRt::new returned (0)
ScopeOf(r) ==
    LET S == { k \in 1 .. Len(stack) : stack[k].rt = r /\ stack[k].kind # "exec" }
    IN  IF S = {} THEN 0 ELSE CHOOSE k \in S : \A j \in S : j <= k

\* host code can call runtime r: a fun or f closure is written inside the
\* closures that enclose it and can use the scopes of both runtimes; a
\* callback closure uses the scopes it is handed
CanCall(r) ==
    /\ HostRuns
    /\ IF stack = <<>> THEN TRUE ELSE stack[Top].kind = "cb" => stack[Top].rt = r

\* MockRt::setup_callback of runtime r with r's own AllocScope, up to the
\* point where fun runs
SetupCallbackOn(d, r) ==
    /\ CanCall(r)
    /\ Top < d
    /\ LET callback_id == next_callback_id(stack, ScopeOf(r))
           node == [Frame("setup", r, ScopeOf(r)) EXCEPT
                        !.id = callback_id, !.saved = slot, !.entry = slot,
                        !.acc = CurAcc]
       IN  IF callback_id >= NumCallbacks
           THEN Panic(Panicked("setup_callback", "index out of bounds",
                               get_imprint(r), get_imprint(r), get_imprint(r),
                               0, 0, FALSE))
           ELSE /\ stack' = Append(stack, node)
                /\ slot' = Some(Top + 1, get_imprint(r))
                /\ last' = NoLast
                /\ UNCHANGED <<other, cfg, initd, vals, status>>

\* MockRt::execute of runtime r with r's own scopes, up to the point where f runs
ExecuteOn(d, r) ==
    /\ CanCall(r)
    /\ Top < d
    /\ IF ~execute_scopes_match(get_imprint(r), get_imprint(r), get_imprint(r))
       THEN Panic(Panicked("execute", "ID mismatch", get_imprint(r),
                           get_imprint(r), get_imprint(r), 0, 0, FALSE))
       ELSE /\ stack' = Append(stack, [Frame("exec", r, ScopeOf(r)) EXCEPT !.acc = CurAcc])
            /\ last' = NoLast
            /\ UNCHANGED <<other, cfg, slot, initd, vals, status>>

NextTwo ==
    \/ \E r \in Runtimes : SetupCallbackOn(MaxTwoDepth, r)
    \/ \E r \in Runtimes : ExecuteOn(MaxTwoDepth, r)
    \/ \E id \in 0 .. 1, a \in ArgPatterns : TrampolineCall(MaxTwoDepth, id, a)
    \/ Return

SpecTwo == InitDeep /\ [][NextTwo]_vars

----------------------------------------------------------------------------
(* SpecBrand: OGRuntimeBranding and OGLifetimeBranding.  Threads call      *)
(* OGRuntimeBranding::new concurrently; fetch_update is a loop of a load   *)
(* and compare-and-exchange steps on OG_RUNTIME_BRANDING_CTR.              *)

\* u64::MAX of the modelled counter
CtrMax == 2 ^ CtrBits - 1

\* prev_id.checked_add(1), in the width of the counter
ctr_wrapping_add(a, b) == [some |-> TRUE, v |-> (a + b) % (CtrMax + 1)]

ctr_checked_add(a, b) == IF a + b > CtrMax THEN None ELSE [some |-> TRUE, v |-> a + b]

\* OGRuntimeBranding::get_imprint
runtime_get_imprint_ctr(self) == [id |-> brand.ctr]

runtime_get_imprint(self) == [id |-> self.id]

\* derived PartialEq of OGRuntimeBrandingImprint
runtime_imprint_eq(a, b) == a.id = b.id

\* OGLifetimeBranding::get_imprint: the imprint has no data
lifetime_get_imprint(self) == [private |-> <<>>]

\* PartialEq of OGLifetimeBrandingImprint
lifetime_imprint_eq(a, b) == TRUE

InitBrand ==
    /\ cfg \in { c \in Configs : ~c.zero_copy_immutable /\ ~c.all_upgrades_valid
                                  /\ ~c.separate_lt }
    /\ stack = <<>>
    /\ slot = NoSlot
    /\ initd = {}
    /\ vals = {}
    /\ status = Running
    /\ last = NoLast
    /\ brand = [ctr |-> 0,
                thr |-> [t \in 1 .. NumThreads |-> [pc |-> "idle", prev |-> 0]],
                insts |-> <<>>,      \* the OGRuntimeBranding values, in the order of
                                    \* the atomic updates that made them
                imps |-> <<>>,       \* the imprints taken from each of them
                lt |-> FALSE,        \* an OGLifetimeBranding exists
                ltimps |-> <<>>]     \* the imprints taken from it
    /\ mem = Unused
    /\ calc = Unused

\* OGRuntimeBranding::new, thread t: fetch_update loads the counter
NewLoad(t) ==
    /\ brand.thr[t].pc = "idle"
    /\ brand' = [brand EXCEPT !.thr[t] = [pc |-> "loop", prev |-> brand.ctr]]
    /\ UNCHANGED <<cfg, stack, slot, initd, vals, status, last, mem, calc>>

\* OGRuntimeBranding::new, thread t: one turn of fetch_update's loop, and
\* the expect on its result
NewCas(t) ==
    /\ brand.thr[t].pc = "loop"
    /\ LET prev == brand.thr[t].prev
           next == ctr_checked_add(prev, 1)
       IN  brand' =
             IF ~next.some
             THEN \* Err(prev): "Overflow generating new OGRuntimeBranding ID"
                  [brand EXCEPT !.thr[t].pc = "panicked"]
             ELSE IF brand.ctr = prev
             THEN \* compare_exchange_weak succeeded: Ok(prev)
                  [brand EXCEPT !.ctr = next.v,
                                !.thr[t].pc = "idle",
                                !.insts = Append(@, [id |-> prev]),
                                !.imps = Append(@, <<>>)]
             ELSE \* it failed and returned the value it found
                  [brand EXCEPT !.thr[t].prev = brand.ctr]
    /\ UNCHANGED <<cfg, stack, slot, initd, vals, status, last, mem, calc>>

\* OGLifetimeBranding::new(f): f is handed a new ID
NewLifetime ==
    /\ ~brand.lt
    /\ brand' = [brand EXCEPT !.lt = TRUE]
    /\ UNCHANGED <<cfg, stack, slot, initd, vals, status, last, mem, calc>>

\* get_imprint is called on the k-th OGRuntimeBranding
GetImprint(k) ==
    /\ k \in 1 .. Len(brand.insts)
    /\ Len(brand.imps[k]) < MaxImprints
    /\ brand' = [brand EXCEPT !.imps[k] = Append(@, runtime_get_imprint(brand.insts[k]))]
    /\ UNCHANGED <<cfg, stack, slot, initd, vals, status, last, mem, calc>>

\* get_imprint is called on the OGLifetimeBranding
GetLifetimeImprint ==
    /\ brand.lt
    /\ Len(brand.ltimps) < MaxImprints
    /\ brand' = [brand EXCEPT !.ltimps = Append(@, lifetime_get_imprint(brand.lt))]
    /\ UNCHANGED <<cfg, stack, slot, initd, vals, status, last, mem, calc>>

NextBrand ==
    \/ \E t \in 1 .. NumThreads : NewLoad(t)
    \/ \E t \in 1 .. NumThreads : NewCas(t)
    \/ NewLifetime
    \/ \E k \in 1 .. CtrMax : GetImprint(k)
    \/ GetLifetimeImprint

SpecBrand == InitBrand /\ [][NextBrand]_vars

----------------------------------------------------------------------------
(* SpecMem: the contents of foreign memory under OGMutRef::write,          *)
(* write_ref, OGMutSlice::write_from_iter and copy_from_slice.  Memory is  *)
(* a sequence of bytes; a value is stored as its bytes and a Val reads     *)
(* them back.                                                              *)

\* u8 and u16 of the modelled machine
MemTypes == { [size |-> 1, align |-> 1], [size |-> 2, align |-> 2] }

ValuesOf(ty) == 0 .. (ByteMax + 1) ^ ty.size - 1

\* the bytes of value v of type ty in memory (little endian)
to_bytes_low(v, ty) == [i \in 1 .. ty.size |-> IF i = 1 THEN v % (ByteMax + 1) ELSE 0]

to_bytes(v, ty) == [i \in 1 .. ty.size |-> (v \div (ByteMax + 1) ^ (i - 1)) % (ByteMax + 1)]

RECURSIVE from_bytes(_)
\* the value that a sequence of bytes holds
from_bytes(bs) ==
    IF bs = <<>> THEN 0 ELSE Head(bs) + (ByteMax + 1) * from_bytes(Tail(bs))

\* <*mut T>::write / copy_nonoverlapping: the bytes bs are stored at ptr
store(bytes, ptr, bs) ==
    [a \in 1 .. Len(bytes) |->
        IF a - 1 >= ptr /\ a - 1 < ptr + Len(bs) THEN bs[a - ptr] ELSE bytes[a]]

\* dereferencing a Val<T> at ptr
load(bytes, ptr, ty) == from_bytes([i \in 1 .. ty.size |-> bytes[ptr + i]])

\* dereferencing a Val<[T]> of len elements at ptr
load_slice(bytes, ptr, ty, len) ==
    [i \in 1 .. len |-> load(bytes, ptr + (i - 1) * ty.size, ty)]

RECURSIVE store_elems(_, _, _, _, _)
\* self.reference.iter().zip(src).for_each(write): the first count elements
\* of src are written one after the other
store_elems(bytes, ptr, ty, src, count) ==
    IF count = 0 THEN bytes
    ELSE store(store_elems(bytes, ptr, ty, src, count - 1),
               ptr + (count - 1) * ty.size, to_bytes(src[count], ty))

\* the addresses at which an OGMutRef<T> can exist
MemRefs(ty) == { p \in 0 .. MemSize - ty.size : p % ty.align = 0 }

\* the (address, length) pairs at which an OGMutSlice<T> can exist
MemSlices(ty) ==
    { sl \in (0 .. MemSize) \X (0 .. MemSize) :
        sl[1] % ty.align = 0 /\ sl[1] + sl[2] * ty.size <= MemSize }

\* no function applied, nothing written yet
NoOut == [op |-> "none"]

\* outcome of one write: the reference written, the input, and either the
\* contents of the returned Val or a panic
Written(op, ptr, size, ty, input, val) ==
    [op |-> op, ptr |-> ptr, size |-> size, ty |-> ty, input |-> input,
     res |-> "val", val |-> val]

WritePanicked(op, ptr, size, ty, input, msg) ==
    [op |-> op, ptr |-> ptr, size |-> size, ty |-> ty, input |-> input,
     res |-> "panic", msg |-> msg]

InitMem ==
    /\ cfg \in { c \in Configs : ~c.zero_copy_immutable /\ ~c.all_upgrades_valid
                                  /\ ~c.separate_lt }
    /\ stack = <<>>
    /\ slot = NoSlot
    /\ initd = {}
    /\ vals = {}
    /\ status = Running
    /\ last = NoLast
    /\ brand = Unused
    /\ mem \in { [bytes |-> b, src |-> sq, wr |-> NoOut] :
                   b \in [1 .. MemSize -> 0 .. ByteMax],
                   sq \in UNION { [1 .. n -> 0 .. ByteMax] : n \in 0 .. MaxSrcLen } }
    /\ calc = Unused

\* OGMutRef::write(val, access_scope) on a reference to a ty at p
MemWrite(p, ty, v, scope_ok) ==
    /\ mem.wr = NoOut
    /\ p \in MemRefs(ty)
    /\ mem' =
         IF ~scope_ok
         THEN [mem EXCEPT !.wr = WritePanicked("write", p, ty.size, ty, v, "ID mismatch")]
         ELSE LET b == store(mem.bytes, p, to_bytes(v, ty))
              IN  [mem EXCEPT !.bytes = b,
                              !.wr = Written("write", p, ty.size, ty, v, load(b, p, ty))]
    /\ UNCHANGED <<cfg, stack, slot, initd, vals, status, last, brand, calc>>

\* OGMutRef::write_ref(&val, access_scope)
MemWriteRef(p, ty, v, scope_ok) ==
    /\ mem.wr = NoOut
    /\ p \in MemRefs(ty)
    /\ mem' =
         IF ~scope_ok
         THEN [mem EXCEPT !.wr = WritePanicked("write_ref", p, ty.size, ty, v, "ID mismatch")]
         ELSE LET b == store(mem.bytes, p, to_bytes(v, ty))
              IN  [mem EXCEPT !.bytes = b,
                              !.wr = Written("write_ref", p, ty.size, ty, v, load(b, p, ty))]
    /\ UNCHANGED <<cfg, stack, slot, initd, vals, status, last, brand, calc>>

\* OGMutSlice::write_from_iter(src, access_scope) on a slice of len elements
\* of ty at p; the iterator yields mem.src
MemWriteFromIter(p, ty, len, scope_ok) ==
    /\ mem.wr = NoOut
    /\ <<p, len>> \in MemSlices(ty)
    /\ LET count == Min(len, Len(mem.src))
           b == store_elems(mem.bytes, p, ty, mem.src, count)
       IN  mem' =
             IF ~scope_ok
             THEN [mem EXCEPT !.wr = WritePanicked("write_from_iter", p, len * ty.size,
                                                   ty, mem.src, "ID mismatch")]
             ELSE IF count # len
             THEN [mem EXCEPT !.bytes = b,
                              !.wr = WritePanicked("write_from_iter", p, len * ty.size,
                                                   ty, mem.src, AssertCount)]
             ELSE [mem EXCEPT !.bytes = b,
                              !.wr = Written("write_from_iter", p, len * ty.size, ty,
                                             mem.src, load_slice(b, p, ty, len))]
    /\ UNCHANGED <<cfg, stack, slot, initd, vals, status, last, brand, calc>>

\* OGMutSlice::copy_from_slice(src, access_scope): write_ref checks the
\* scope for every element, assume_valid checks it at the end
MemCopyFromSlice(p, ty, len, scope_ok) ==
    /\ mem.wr = NoOut
    /\ <<p, len>> \in MemSlices(ty)
    /\ LET count == Min(len, Len(mem.src))
           b == store_elems(mem.bytes, p, ty, mem.src, count)
       IN  mem' =
             IF count > 0 /\ ~scope_ok
             THEN [mem EXCEPT !.wr = WritePanicked("copy_from_slice", p, len * ty.size,
                                                   ty, mem.src, "ID mismatch")]
             ELSE IF count # len
             THEN [mem EXCEPT !.bytes = b,
                              !.wr = WritePanicked("copy_from_slice", p, len * ty.size,
                                                   ty, mem.src, AssertCount)]
             ELSE IF ~scope_ok
             THEN [mem EXCEPT !.wr = WritePanicked("copy_from_slice", p, len * ty.size,
                                                   ty, mem.src, "ID mismatch")]
             ELSE [mem EXCEPT !.bytes = b,
                              !.wr = Written("copy_from_slice", p, len * ty.size, ty,
                                             mem.src, load_slice(b, p, ty, len))]
    /\ UNCHANGED <<cfg, stack, slot, initd, vals, status, last, brand, calc>>

NextMem ==
    \/ \E ty \in MemTypes : \E p \in 0 .. MemSize, v \in ValuesOf(ty), ok \in BOOLEAN :
          MemWrite(p, ty, v, ok)
    \/ \E ty \in MemTypes : \E p \in 0 .. MemSize, v \in ValuesOf(ty), ok \in BOOLEAN :
          MemWriteRef(p, ty, v, ok)
    \/ \E ty \in MemTypes : \E p, len \in 0 .. MemSize, ok \in BOOLEAN :
          MemWriteFromIter(p, ty, len, ok)
    \/ \E ty \in MemTypes : \E p, len \in 0 .. MemSize, ok \in BOOLEAN :
          MemCopyFromSlice(p, ty, len, ok)

SpecMem == InitMem /\ [][NextMem]_vars

\* OGRuntime::write_stacked_slice_from_iter_mut(src, ..): src.len() reports
\* announced items and the iterator yields mem.src; allocate_stacked_slice_mut
\* hands the closure a slice of announced elements of ty at p, the closure
\* calls write_from_iter on it and then fun
MemWriteStackedSliceFromIter(p, ty, announced, scope_ok) ==
    /\ mem.wr = NoOut
    /\ <<p, announced>> \in MemSlices(ty)
    /\ LET count == Min(announced, Len(mem.src))
           b == store_elems(mem.bytes, p, ty, mem.src, count)
           op == "write_stacked_slice_from_iter_mut"
           size == announced * ty.size
       IN  mem' =
             IF layout_rejected([size |-> size, align |-> ty.align])
             THEN [mem EXCEPT !.wr = [WritePanicked(op, p, size, ty, mem.src,
                                                    map_err("InvalidLayout"))
                                      EXCEPT !.res = "err"]]
             ELSE IF ~scope_ok
             THEN [mem EXCEPT !.wr = WritePanicked(op, p, size, ty, mem.src, "ID mismatch")]
             ELSE IF count # announced
             THEN [mem EXCEPT !.bytes = b,
                              !.wr = WritePanicked(op, p, size, ty, mem.src, AssertCount)]
             ELSE [mem EXCEPT !.bytes = b,
                              !.wr = Written(op, p, size, ty, mem.src,
                                             load_slice(b, p, ty, announced))]
    /\ UNCHANGED <<cfg, stack, slot, initd, vals, status, last, brand, calc>>

\* SpecIter: the slice writes whose source is an iterator or a slice
NextIter ==
    \/ \E ty \in MemTypes : \E p, announced \in 0 .. MemSize, ok \in BOOLEAN :
          MemWriteStackedSliceFromIter(p, ty, announced, ok)
    \/ \E ty \in MemTypes : \E p, len \in 0 .. MemSize, ok \in BOOLEAN :
          MemWriteFromIter(p, ty, len, ok)
    \/ \E ty \in MemTypes : \E p, len \in 0 .. MemSize, ok \in BOOLEAN :
          MemCopyFromSlice(p, ty, len, ok)

SpecIter == InitMem /\ [][NextIter]_vars

----------------------------------------------------------------------------
(* SpecBytes: OGCopy::from_bytes, its Clone and OGRef::copy.  An OGCopy is *)
(* the sequence of bytes it holds.                                         *)

\* util::maybe_uninit_as_bytes::as_bytes / as_bytes_mut of a MaybeUninit<T>:
\* the length of the byte slice over the cell
maybe_uninit_as_bytes_len(ty) == ty.size

MaybeValid_from_bytes_zip(ty, src) ==
    [tag |-> "ok",
     bytes |-> [i \in 1 .. Min(maybe_uninit_as_bytes_len(ty), Len(src)) |-> src[i]]]

\* MaybeValid::<T>::from_bytes(src): the assertion on the lengths, then the
\* bytes of src are written one by one into the cell
MaybeValid_from_bytes(ty, src) ==
    IF maybe_uninit_as_bytes_len(ty) # Len(src)
    THEN [tag |-> "panic", bytes |-> <<>>]
    ELSE [tag |-> "ok",
          bytes |-> [i \in 1 .. Min(maybe_uninit_as_bytes_len(ty), Len(src)) |-> src[i]]]

\* MaybeValid::as_bytes of a cell holding these bytes
MaybeValid_as_bytes(ty, cell) == [i \in 1 .. maybe_uninit_as_bytes_len(ty) |-> cell[i]]

\* the outcome of one of the three functions: the address of the reference
\* (copy), its input bytes, the copy it was applied to (clone), and the copy
\* it returned
Copied(op, ty, ptr, input, orig, r) ==
    [op |-> op, ty |-> ty, ptr |-> ptr, input |-> input, orig |-> orig,
     res |-> IF r.tag = "ok" THEN "val" ELSE "panic",
     msg |-> IF r.tag = "ok" THEN "" ELSE r.tag,
     copy |-> r.bytes]

\* OGCopy::<T>::from_bytes(&mem.src)
CopyFromBytes(ty) ==
    /\ mem.wr = NoOut
    /\ mem' = [mem EXCEPT !.wr = Copied("from_bytes", ty, 0, mem.src, <<>>,
                                        MaybeValid_from_bytes(ty, mem.src))]
    /\ UNCHANGED <<cfg, stack, slot, initd, vals, status, last, brand, calc>>

\* OGRef::<T>::copy(access_scope) of a reference to a ty at p
RefCopy(p, ty, scope_ok) ==
    /\ mem.wr = NoOut
    /\ p \in MemRefs(ty)
    /\ LET pointee == [i \in 1 .. ty.size |-> mem.bytes[p + i]]
       IN  mem' = [mem EXCEPT !.wr =
             IF ~scope_ok
             THEN Copied("copy", ty, p, pointee, <<>>,
                         [tag |-> "ID mismatch", bytes |-> <<>>])
             ELSE Copied("copy", ty, p, pointee, <<>>,
                         MaybeValid_from_bytes(ty, MaybeValid_as_bytes(ty, pointee)))]
    /\ UNCHANGED <<cfg, stack, slot, initd, vals, status, last, brand, calc>>

\* <OGCopy<T> as Clone>::clone of the copy that from_bytes or copy returned
CopyClone ==
    /\ mem.wr # NoOut
    /\ mem.wr.op \in {"from_bytes", "copy"}
    /\ mem.wr.res = "val"
    /\ LET c == mem.wr
       IN  mem' = [mem EXCEPT !.wr = Copied("clone", c.ty, c.ptr, c.input, c.copy,
                       MaybeValid_from_bytes(c.ty, MaybeValid_as_bytes(c.ty, c.copy)))]
    /\ UNCHANGED <<cfg, stack, slot, initd, vals, status, last, brand, calc>>

NextBytes ==
    \/ \E ty \in MemTypes : CopyFromBytes(ty)
    \/ \E ty \in MemTypes : \E p \in 0 .. MemSize, ok \in BOOLEAN : RefCopy(p, ty, ok)
    \/ CopyClone

SpecBytes == InitMem /\ [][NextBytes]_vars

----------------------------------------------------------------------------
(* SpecCopy: OGCopy<bool>::validate and validate_ref, in the crate built   *)
(* on BitPatternValidate (src/) and in the one built on zerocopy           *)
(* (omniglot/).  The input is the byte the copy holds.                     *)

\* u8::MAX
U8Max == 255

\* core::mem::size_of and align_of of bool and u8
layout_of(ty) ==
    CASE ty = "bool" -> [size |-> 1, align |-> 1] [] ty = "u8" -> [size |-> 1, align |-> 1]

\* <bool as BitPatternValidate>::validate on the byte t points to; the two
\* assertions come first
bool_validate_le(byte) == byte <= 2

bool_validate(byte) == byte < 2

bool_validate_asserts ==
    /\ layout_of("bool").size = layout_of("u8").size
    /\ layout_of("bool").align = layout_of("u8").align

\* <bool as zerocopy::TryFromBytes>::try_ref_from_bytes(bytes).is_ok()
try_ref_from_bytes_is_ok(bytes) == Len(bytes) = layout_of("bool").size /\ bytes[1] \in {0, 1}

\* the values assume_valid can produce from a copy: the bool the byte
\* encodes, or, for a byte that encodes none, anything
assume_valid(copy) ==
    IF copy.byte = 0 THEN {FALSE} ELSE IF copy.byte = 1 THEN {TRUE} ELSE BOOLEAN

\* Ok(v), Err(copy), Some(v), None, or a panic
Valid(tag, v) == [tag |-> tag, v |-> v]

\* does the check of crate krate accept the copy
copy_is_valid(krate, copy) ==
    IF krate = "bit_pattern" THEN bool_validate(copy.byte)
    ELSE try_ref_from_bytes_is_ok(<<copy.byte>>)

\* OGCopy<bool>::validate(self): the results it can have
copy_validate(krate, copy) ==
    IF DISABLE_VALIDATION_CHECKS THEN { Valid("Ok", v) : v \in assume_valid(copy) }
    ELSE IF krate = "bit_pattern" /\ ~bool_validate_asserts THEN { Valid("panic", <<>>) }
    ELSE IF copy_is_valid(krate, copy) THEN { Valid("Ok", v) : v \in assume_valid(copy) }
    ELSE { Valid("Err", copy) }

\* OGCopy<bool>::validate_ref(&self)
copy_validate_ref(krate, copy) ==
    IF DISABLE_VALIDATION_CHECKS THEN { Valid("Some", v) : v \in assume_valid(copy) }
    ELSE IF krate = "bit_pattern" /\ ~bool_validate_asserts THEN { Valid("panic", <<>>) }
    ELSE IF copy_is_valid(krate, copy) THEN { Valid("Some", v) : v \in assume_valid(copy) }
    ELSE { Valid("None", <<>>) }

\* the MockRt, ID and memory state that the pure functions do not touch
CalcInit ==
    /\ cfg \in { c \in Configs : ~c.zero_copy_immutable /\ ~c.all_upgrades_valid
                                  /\ ~c.separate_lt }
    /\ stack = <<>>
    /\ slot = NoSlot
    /\ initd = {}
    /\ vals = {}
    /\ status = Running
    /\ last = NoLast
    /\ brand = Unused
    /\ mem = Unused

\* OGCopy::<bool>::from_bytes(&[b]), for every byte b
InitCopy ==
    /\ CalcInit
    /\ calc \in { [copy |-> [byte |-> b], out |-> NoOut] : b \in 0 .. U8Max }

CopyValidate(krate) ==
    /\ calc.out = NoOut
    /\ \E r \in copy_validate(krate, calc.copy) :
          calc' = [calc EXCEPT !.out = [op |-> "validate", krate |-> krate, res |-> r]]
    /\ UNCHANGED <<cfg, stack, slot, initd, vals, status, last, brand, mem>>

CopyValidateRef(krate) ==
    /\ calc.out = NoOut
    /\ \E r \in copy_validate_ref(krate, calc.copy) :
          calc' = [calc EXCEPT !.out = [op |-> "validate_ref", krate |-> krate, res |-> r]]
    /\ UNCHANGED <<cfg, stack, slot, initd, vals, status, last, brand, mem>>

NextCopy ==
    \/ \E k \in {"bit_pattern", "zerocopy"} : CopyValidate(k)
    \/ \E k \in {"bit_pattern", "zerocopy"} : CopyValidateRef(k)

SpecCopy == InitCopy /\ [][NextCopy]_vars

----------------------------------------------------------------------------
(* SpecArray: <[T; N] as BitPatternValidate>::validate for one-byte        *)
(* element types.  The input is the array's bytes.                         *)

\* <T as BitPatternValidate>::validate on one element: bool, or a type
\* declared unconditionally_valid!
elem_validate(ty, byte) == IF ty = "bool" THEN bool_validate(byte) ELSE TRUE

RECURSIVE array_validate_short(_, _, _)
array_validate_short(ty, elems, i) ==
    IF i >= Len(elems) THEN [res |-> TRUE, visited |-> i - 1]
    ELSE IF ~elem_validate(ty, elems[i]) THEN [res |-> FALSE, visited |-> i]
    ELSE array_validate_short(ty, elems, i + 1)

RECURSIVE array_validate(_, _, _)
\* the loop "for _i in 0..N" with elem at the i-th element: its result, and
\* how many elements it looked at
array_validate(ty, elems, i) ==
    IF i > Len(elems) THEN [res |-> TRUE, visited |-> i - 1]
    ELSE IF ~elem_validate(ty, elems[i]) THEN [res |-> FALSE, visited |-> i]
    ELSE array_validate(ty, elems, i + 1)

InitArray ==
    /\ CalcInit
    /\ calc \in { [elems |-> sq, out |-> NoOut] :
                    sq \in UNION { [1 .. n -> 0 .. MaxElemByte] : n \in 0 .. MaxValidateLen } }

\* <[ty; N]>::validate(array)
ArrayValidate(ty) ==
    /\ calc.out = NoOut
    /\ LET r == array_validate(ty, calc.elems, 1)
       IN  calc' = [calc EXCEPT !.out = [op |-> "array_validate", ty |-> ty,
                                         res |-> r.res, visited |-> r.visited]]
    /\ UNCHANGED <<cfg, stack, slot, initd, vals, status, last, brand, mem>>

NextArray == \E ty \in {"bool", "u8"} : ArrayValidate(ty)

SpecArray == InitArray /\ [][NextArray]_vars

----------------------------------------------------------------------------
(* SpecSub: OGRef::sub_ref and OGMutRef::sub_ref, which both decide by     *)
(* sub_ref_check::<T, U>(byte_offset).  The inputs are the layouts of T    *)
(* and U and the offset.                                                   *)

SubUsizeMax == 2 ^ SubBits - 1

SubIsizeMax == 2 ^ (SubBits - 1) - 1

\* byte_offset.checked_add(size_of::<U>())
sub_wrapping_add(a, b) == [some |-> TRUE, v |-> (a + b) % (SubUsizeMax + 1)]

sub_checked_add(a, b) == IF a + b > SubUsizeMax THEN None ELSE [some |-> TRUE, v |-> a + b]

bit_or_left(a, b) == a

RECURSIVE bit_or(_, _)
\* a | b
bit_or(a, b) ==
    IF a = 0 THEN b
    ELSE IF b = 0 THEN a
    ELSE (IF a % 2 = 1 \/ b % 2 = 1 THEN 1 ELSE 0) + 2 * bit_or(a \div 2, b \div 2)

RECURSIVE trailing_zeros(_)
\* usize::trailing_zeros: the width of usize for 0
trailing_zeros(n) ==
    IF n = 0 THEN SubBits
    ELSE IF n % 2 = 1 THEN 0
    ELSE 1 + trailing_zeros(n \div 2)

\* foreign_memory::sub_ref_check::<T, U>(byte_offset)
sub_ref_check(T, U, byte_offset) ==
    LET s == sub_checked_add(byte_offset, U.size)
    IN  IF ~s.some THEN FALSE
        ELSE IF s.v > T.size THEN FALSE
        ELSE IF U.align > (2 ^ trailing_zeros(bit_or(T.align, byte_offset))) % (SubUsizeMax + 1)
        THEN FALSE
        ELSE TRUE

\* the layouts a Rust type can have: the alignment is a power of two, the
\* size a multiple of it and at most isize::MAX
SubTypes ==
    { ty \in [size : 0 .. SubIsizeMax, align : { 2 ^ e : e \in 0 .. MaxAlignExp }] :
        \E k \in 0 .. MaxSizeUnits : ty.size = k * ty.align }

InitSub ==
    /\ CalcInit
    /\ calc \in { [T |-> t, U |-> u, byte_offset |-> o, out |-> NoOut] :
                    t \in SubTypes, u \in SubTypes, o \in 0 .. SubUsizeMax }

\* OGRef::<T>::sub_ref::<U>(byte_offset)
SubRef ==
    /\ calc.out = NoOut
    /\ calc' = [calc EXCEPT !.out =
                  [op |-> "OGRef::sub_ref",
                   res |-> IF sub_ref_check(calc.T, calc.U, calc.byte_offset)
                           THEN [some |-> TRUE, offset |-> calc.byte_offset, ty |-> calc.U]
                           ELSE None]]
    /\ UNCHANGED <<cfg, stack, slot, initd, vals, status, last, brand, mem>>

\* OGMutRef::<T>::sub_ref::<U>(byte_offset)
SubRefMut ==
    /\ calc.out = NoOut
    /\ calc' = [calc EXCEPT !.out =
                  [op |-> "OGMutRef::sub_ref",
                   res |-> IF sub_ref_check(calc.T, calc.U, calc.byte_offset)
                           THEN [some |-> TRUE, offset |-> calc.byte_offset, ty |-> calc.U]
                           ELSE None]]
    /\ UNCHANGED <<cfg, stack, slot, initd, vals, status, last, brand, mem>>

NextSub == SubRef \/ SubRefMut

SpecSub == InitSub /\ [][NextSub]_vars

----------------------------------------------------------------------------
(* Properties: references and stacked allocation *)

RefOpNames == WriteOps \cup {"validate", "valid", "assume_valid", "copy"}

\* C1: every reference operation that takes an AccessScope, applied to a
\* reference of one runtime under the AccessScope of another, panics with the
\* ID-mismatch diagnostic that names both imprints, before any byte of foreign
\* memory is read or written, and never returns.
C1_CrossInstancePanicsIDMismatch ==
    /\ (status.kind = "panic" /\ status.op \in RefOpNames /\ status.ri # status.si) =>
            /\ status.msg = "ID mismatch"
            /\ status.a = status.ri
            /\ status.b = status.si
            /\ status.reads = 0
            /\ status.writes = 0
    /\ (last.op \in RefOpNames) => last.rimprint = last.simprint

\* the bytes of the live allocations that are tracked as mutable
MutableBytes(st) == UNION { Range(st[i].ptr, st[i].len) : i \in { k \in LiveAllocs(st) : st[k].mutable } }

\* the frames that are allocate_stacked_mut calls
StackedMut(st) == { k \in LiveAllocs(st) : st[k].via = "allocate_stacked_mut" }

\* C2: with all_upgrades_valid = false, no byte range inside the allocation of
\* an allocate_stacked_mut call is reported valid by a scope outside that
\* call's closure, and the set of ranges a scope reports valid never grows, so
\* the outer scope does not report the range after the call has returned either.
C2_NestedAllocationScoped ==
    [][ ~cfg.all_upgrades_valid =>
        /\ \A k \in StackedMut(stack') : \A j \in 0 .. k - 1 :
           \A p \in Range(stack'[k].ptr, stack'[k].len) :
           \A l \in 1 .. stack'[k].ptr + stack'[k].len - p :
               /\ ~is_valid(stack', j, p, l)
               /\ ~is_valid_mut(stack', j, p, l)
        /\ \A j \in 0 .. Min(Len(stack), Len(stack')) :
           SubSeq(stack, 1, j) = SubSeq(stack', 1, j) =>
               \A p \in Addr : \A l \in 1 .. Modulus :
                   /\ is_valid(stack', j, p, l) => is_valid(stack, j, p, l)
                   /\ is_valid_mut(stack', j, p, l) => is_valid_mut(stack, j, p, l)
      ]_vars

\* two allocate_stacked_mut calls are nested, and the scope handed to the
\* inner closure reported a range of the inner allocation valid that the
\* scope handed to the outer closure does not report
C2_Witness ==
    /\ ~cfg.all_upgrades_valid
    /\ Len(stack) = 2
    /\ StackedMut(stack) = {1, 2}
    /\ last.op = "upgrade_from_ptr"
    /\ last.scope = 2
    /\ last.ptr = stack[2].ptr
    /\ last.ty.size <= stack[2].len
    /\ last.some
    /\ ~is_valid(stack, 1, last.ptr, last.ty.size)

\* C4: OGRef::upgrade_from_ptr returns Some exactly when the pointer is
\* aligned for T and the scope's tracker reports is_valid(ptr, size_of T),
\* OGMutRef::upgrade_from_ptr the same with is_valid_mut, and the reference
\* returned points at ptr.
C4_UpgradeFromPtr ==
    (last.op = "upgrade_from_ptr" /\ last.kind \in {"OGRef", "OGMutRef"}) =>
        LET tracked == IF last.kind = "OGRef"
                       THEN is_valid(stack, last.scope, last.ptr, last.ty.size)
                       ELSE is_valid_mut(stack, last.scope, last.ptr, last.ty.size)
        IN  /\ last.some <=> (is_aligned(last.ptr, last.ty.align) /\ tracked)
            /\ last.some => last.rptr = last.ptr

\* OGMutRef::upgrade_from_ptr turned down an aligned pointer into an
\* allocation that is tracked as immutable
C4_Witness ==
    /\ last.op = "upgrade_from_ptr"
    /\ last.kind = "OGMutRef"
    /\ ~last.some
    /\ is_aligned(last.ptr, last.ty.align)
    /\ is_valid(stack, last.scope, last.ptr, last.ty.size)

\* C5: with all_upgrades_valid = false, every scope reports a byte range
\* valid only if the range lies in allocations whose closures are running and
\* holds initialized bytes, and valid for writing only if it is moreover
\* tracked as mutable.
C5_ValidOnlyIfAllocatedInitialized ==
    ~cfg.all_upgrades_valid =>
        \A n \in 0 .. Len(stack) : \A p \in Addr : \A l \in 0 .. Modulus :
            /\ is_valid(stack, n, p, l) =>
                    /\ Range(p, l) \subseteq LiveBytes(stack)
                    /\ Range(p, l) \subseteq initd
            /\ is_valid_mut(stack, n, p, l) => Range(p, l) \subseteq MutableBytes(stack)

----------------------------------------------------------------------------
(* Properties: foreign calls and callbacks *)

\* the step is a write through a reference
WriteStep ==
    \/ last'.op \in WriteOps
    \/ status.kind = "running" /\ status'.kind = "panic" /\ status'.op \in WriteOps

\* C3: no OGVal is live while foreign code runs, no write through a reference
\* starts while an OGVal is live, and a callback closure runs only above an
\* execute that holds the unique borrow of the runtime's original AccessScope.
C3_NoValWhileWriteOrForeignCall ==
    [][ /\ ForeignRuns' => vals' = {}
        /\ WriteStep => vals = {}
        /\ \A k \in 1 .. Len(stack') : stack'[k].kind = "cb" =>
              /\ \E e \in 1 .. k - 1 : stack'[e].kind = "exec" /\ stack'[e].acc = 0
              /\ \A v \in vals' : v.obj # 0
      ]_vars

\* a callback closure holds an OGVal it made under its own AccessScope
C3_Witness ==
    /\ stack # <<>>
    /\ stack[Top].kind = "cb"
    /\ vals # {}
    /\ \A v \in vals : v.obj = Top

SetupFrames(st) == { k \in 1 .. Len(st) : st[k].kind = "setup" }

Innermost(S) == CHOOSE k \in S : \A j \in S : j <= k

\* C6: while the fun of the innermost setup_callback runs the slot holds that
\* call's Callback frame and the runtime's imprint, the return of a
\* setup_callback puts back the value the slot had on entry, and the slot
\* never refers to a frame that is gone, so no dispatch reads a stale chain.
C6_SlotSavedAndRestored ==
    [][ /\ SetupFrames(stack') # {} =>
              LET s == Innermost(SetupFrames(stack'))
              IN  slot' = Some(s, get_imprint(stack'[s].rt))
        /\ (status'.kind = "running" /\ Len(stack') < Len(stack)
                /\ stack[Top].kind = "setup") => slot' = stack[Top].entry
        /\ ~slot'.stale
        /\ status'.kind # "ub"
      ]_vars

\* setup_callback was called from inside a callback closure
C6_Witness ==
    /\ Len(stack) = 4
    /\ stack[1].kind = "setup"
    /\ stack[2].kind = "exec"
    /\ stack[3].kind = "cb"
    /\ stack[4].kind = "setup"
    /\ slot.head = 4
    /\ stack[4].entry.head = 1

\* C7: the closure sees in argument register i the value a_i the trampoline
\* was called with, and the trampoline returns in (reg0, reg1) what the
\* closure set, 0 where it set nothing.
C7_CallbackRoundTrip ==
    /\ \A k \in 1 .. Len(stack) : stack[k].kind = "cb" =>
          /\ \A i \in 0 .. NumArgRegs - 1 :
                get_argument_register(stack[k].ctx, i) = [some |-> TRUE, v |-> stack[k].args[i + 1]]
          /\ get_argument_register(stack[k].ctx, NumArgRegs) = None
          /\ stack[k - 1].kind = "exec"
    /\ last.op = "trampoline" => last.reg0 = last.want0 /\ last.reg1 = last.want1

\* a trampoline returned after its closure had set return register 0 only
C7_Witness ==
    /\ last.op = "trampoline"
    /\ last.reg0 = 7
    /\ last.reg1 = 0

\* C8: when the nearest Callback frame of the chain has id 511 (so that the
\* next id would be 512), setup_callback, called with the runtime's own
\* AllocScope, returns Err(SetupCallbackInsufficientSlots) without a panic,
\* without running fun and without touching the slot.
C8_SetupCallbackRejectsWhenFull ==
    [][ ( /\ HostRuns
          /\ next_callback_id(stack, CurScope) = NumCallbacks
          /\ last'.res # "IDMismatch"
          /\ \/ Len(stack') > Len(stack)
             \/ status'.op = "setup_callback"
             \/ last'.op = "setup_callback" )
        => /\ status'.kind = "running"
           /\ last'.res = "SetupCallbackInsufficientSlots"
           /\ stack' = stack
           /\ slot' = slot
      ]_vars

C10_ExecuteChecksBothScopes ==
    /\ \A k \in 1 .. Len(stack) : stack[k].kind = "exec" =>
          /\ stack[k].ai = get_imprint(stack[k].rt)
          /\ stack[k].ci = get_imprint(stack[k].rt)
    /\ (status.kind = "panic" /\ status.op = "execute") =>
          /\ ~status.ran
          /\ status.msg = "ID mismatch"
          /\ status.b # status.a \/ status.c # status.a

\* execute was given the runtime's AllocScope and another runtime's AccessScope
C10_Witness ==
    /\ status.kind = "panic"
    /\ status.op = "execute"
    /\ status.b = status.a
    /\ status.c # status.a


\* C11: with two runtimes of one ID type, a trampoline that a setup_callback
\* of one runtime handed out, called while that call's fun runs, invokes a
\* closure registered with that runtime, with a scope that carries that
\* runtime's imprint and extends that runtime's chain.
C11_TrampolineStaysWithItsRuntime ==
    \A k \in 1 .. Len(stack) : stack[k].kind = "cb" =>
        \A s \in SetupFrames(stack) :
            (s < k /\ stack[s].id = stack[k].tramp) =>
                /\ stack[stack[k].closure].rt = stack[s].rt
                /\ stack[k].rt = stack[s].rt
                /\ stack[stack[k].pred].rt = stack[s].rt

----------------------------------------------------------------------------
(* Properties: the stacked operations *)

\* the operations of MockRt that return OGResult and take scopes
ScopedResultOps ==
    {"allocate_stacked_mut", "allocate_stacked_t_mut", "setup_callback",
     "write_stacked_t", "write_stacked_t_mut", "write_stacked_ref_t",
     "write_stacked_ref_t_mut", "write_stacked_slice", "write_stacked_slice_mut",
     "write_stacked_slice_from_iter", "write_stacked_slice_from_iter_mut"}

\* the step is the outcome of a call that presented a scope of a foreign imprint
MismatchedCall(ops) ==
    \/ last'.op \in ops /\ last'.res = "IDMismatch"
    \/ /\ status.kind = "running" /\ status'.kind = "panic" /\ status'.op \in ops
       /\ status'.ri # status'.a \/ status'.si # status'.a
    \/ /\ Len(stack') > Len(stack)
       /\ LET f == stack'[Len(stack')]
          IN  /\ f.kind \in {"alloc", "setup"}
              /\ f.ai # get_imprint(f.rt) \/ f.ci # get_imprint(f.rt)

\* C12: each of these operations, given an AllocScope or AccessScope of a
\* foreign imprint, returns Err(IDMismatch): it does not panic, runs no
\* closure, allocates nothing and leaves the active-chain slot as it was.
C12_MismatchReturnsIDMismatch ==
    [][ MismatchedCall(ScopedResultOps) =>
            /\ status'.kind = "running"
            /\ last'.res = "IDMismatch"
            /\ stack' = stack
            /\ initd' = initd
            /\ slot' = slot
      ]_vars

\* C13: with scopes of the runtime's own imprint no fallible operation
\* panics: a panic of one of them names a scope of a foreign imprint.
C13_NoPanicWithOwnScopes ==
    (status.kind = "panic"
        /\ status.op \in ScopedResultOps \cup {"allocate_stacked_slice_mut"}) =>
            (status.ri # status.a \/ status.si # status.a)

\* C14: allocate_stacked_mut fails, other than for a foreign scope, only
\* with Err(AllocInvalidLayout), and then nothing else changes: no closure
\* runs and no frame appears; and no allocate_stacked_mut frame holds a
\* zero-length allocation, the layout the allocator turns down.
C14_RejectedLayoutIsAnError ==
    [][ /\ (last'.op = "allocate_stacked_mut" /\ last'.res # "IDMismatch") =>
              /\ last'.res = "AllocInvalidLayout"
              /\ status'.kind = "running"
              /\ stack' = stack
              /\ initd' = initd
              /\ slot' = slot
        /\ \A k \in StackedMut(stack') : stack'[k].len > 0
      ]_vars

\* allocate_stacked_mut, called inside the closure of another allocation,
\* turned a zero-length layout down
C14_Witness ==
    /\ last.op = "allocate_stacked_mut"
    /\ last.res = "AllocInvalidLayout"
    /\ StackedMut(stack) # {}

----------------------------------------------------------------------------
(* Properties: IDs and imprints *)

\* C15: any two imprints taken from one ID, whenever they were taken, are
\* equal, for counter-branded and for lifetime-branded IDs, and taking an
\* imprint changes neither an ID nor the counter.
C15_ImprintsOfOneIDAreEqual ==
    [][ /\ \A k \in 1 .. Len(brand'.imps) :
             \A i, j \in 1 .. Len(brand'.imps[k]) :
                 runtime_imprint_eq(brand'.imps[k][i], brand'.imps[k][j])
        /\ \A i, j \in 1 .. Len(brand'.ltimps) :
             lifetime_imprint_eq(brand'.ltimps[i], brand'.ltimps[j])
        /\ (brand'.imps # brand.imps /\ Len(brand'.imps) = Len(brand.imps)) =>
             (brand'.ctr = brand.ctr /\ brand'.insts = brand.insts)
        /\ brand'.ltimps # brand.ltimps =>
             (brand'.ctr = brand.ctr /\ brand'.insts = brand.insts /\ brand'.lt = brand.lt)
      ]_vars

\* two imprints were taken from the first ID, one of them after the counter
\* had moved on, and two from a lifetime-branded ID
C15_Witness ==
    /\ Len(brand.insts) >= 2
    /\ Len(brand.imps[1]) = 2
    /\ Len(brand.imps[2]) = 1
    /\ Len(brand.ltimps) = 2

\* C16: the imprints of any two OGRuntimeBranding values differ: each new()
\* gets a counter value no other gets, in strictly increasing order of the
\* atomic updates, the counter never wraps, and new() panics only when the
\* counter cannot be incremented.
C16_DistinctImprints ==
    /\ brand.ctr = Len(brand.insts)
    /\ \A i, j \in 1 .. Len(brand.insts) :
          i < j => /\ brand.insts[i].id < brand.insts[j].id
                   /\ ~runtime_imprint_eq(runtime_get_imprint(brand.insts[i]),
                                          runtime_get_imprint(brand.insts[j]))
    /\ \A t \in 1 .. NumThreads :
          brand.thr[t].pc = "panicked" => (brand.ctr = CtrMax /\ brand.thr[t].prev = CtrMax)

\* the counter is used up: one thread's new() has panicked while the other
\* thread is still inside fetch_update
C16_Witness ==
    /\ Len(brand.insts) = CtrMax
    /\ \E t, u \in 1 .. NumThreads : brand.thr[t].pc = "panicked" /\ brand.thr[u].pc = "loop"

----------------------------------------------------------------------------
(* Properties: writing to foreign memory *)

\* C17: the Val returned by write and write_ref dereferences to the value
\* written; the Val returned by write_from_iter and copy_from_slice
\* dereferences to a slice whose i-th element is the i-th source element;
\* and no byte outside the written reference changes.
C17_WriteReadsBack ==
    [][ LET w == mem'.wr
        IN  mem.wr = NoOut /\ w # NoOut =>
              /\ (w.res = "val" /\ w.op \in {"write", "write_ref"}) => w.val = w.input
              /\ (w.res = "val" /\ w.op \in {"write_from_iter", "copy_from_slice"}) =>
                    /\ Len(w.val) * w.ty.size = w.size
                    /\ Len(w.val) <= Len(w.input)
                    /\ \A i \in 1 .. Len(w.val) : w.val[i] = w.input[i]
              /\ \A a \in 1 .. MemSize :
                    (a - 1 < w.ptr \/ a - 1 >= w.ptr + w.size) => mem'.bytes[a] = mem.bytes[a]
      ]_vars

\* a two-byte value whose bytes differ was written next to a byte that is
\* not zero
C17_Witness ==
    /\ mem.wr # NoOut
    /\ mem.wr.op = "write"
    /\ mem.wr.res = "val"
    /\ mem.wr.ty.size = 2
    /\ mem.wr.val = ByteMax + 1
    /\ \E a \in 1 .. MemSize :
          (a - 1 < mem.wr.ptr \/ a - 1 >= mem.wr.ptr + 2) /\ mem.bytes[a] # 0

----------------------------------------------------------------------------
(* Properties: validation *)

\* C18: with validation checks enabled, validating a Copy<bool> holding
\* byte b gives Ok(false) for 0, Ok(true) for 1 and Err with the copy still
\* holding b for 2..255; validate_ref gives Some exactly for 0 and 1; and
\* validation does not panic.
C18_BoolValidation ==
    (calc.out # NoOut /\ ~DISABLE_VALIDATION_CHECKS) =>
        LET b == calc.copy.byte
            r == calc.out.res
        IN  /\ r.tag # "panic"
            /\ calc.out.op = "validate" =>
                  /\ b = 0 => (r.tag = "Ok" /\ r.v = FALSE)
                  /\ b = 1 => (r.tag = "Ok" /\ r.v = TRUE)
                  /\ b \in 2 .. U8Max => (r.tag = "Err" /\ r.v = [byte |-> b])
            /\ calc.out.op = "validate_ref" =>
                  (r.tag = "Some" <=> b \in {0, 1})

\* the byte 2 was rejected by validate, with the checks enabled
C18_Witness ==
    /\ calc.out # NoOut
    /\ ~DISABLE_VALIDATION_CHECKS
    /\ calc.out.op = "validate"
    /\ calc.copy.byte = 2
    /\ calc.out.res.tag = "Err"
    /\ calc.out.res.v = [byte |-> 2]

\* C19: validating an array gives true exactly when every element
\* validates: false as soon as one element at any index is invalid,
\* whatever the others hold, and true for the empty array; the result is
\* the conjunction of the element results in either order.
C19_ArrayValidation ==
    calc.out # NoOut =>
        LET n == Len(calc.elems)
            ok(i) == elem_validate(calc.out.ty, calc.elems[i])
        IN  /\ calc.out.res = (\A i \in 1 .. n : ok(i))
            /\ calc.out.res = (\A i \in 1 .. n : ok(n + 1 - i))
            /\ (\E k \in 1 .. n : ~ok(k)) => ~calc.out.res
            /\ n = 0 => calc.out.res

\* an array of bool whose only invalid element is its last one was rejected
C19_Witness ==
    /\ calc.out # NoOut
    /\ calc.out.ty = "bool"
    /\ Len(calc.elems) = MaxValidateLen
    /\ \A i \in 1 .. MaxValidateLen - 1 : calc.elems[i] < 2
    /\ calc.elems[MaxValidateLen] = 2
    /\ ~calc.out.res
    /\ calc.out.visited = MaxValidateLen

----------------------------------------------------------------------------
(* Properties: sub-references *)

\* C20: sub_ref::<U>(byte_offset) is None whenever byte_offset plus the size
\* of U exceeds the size of T, also when that sum does not fit in usize;
\* otherwise it is Some exactly when the alignment of U is at most the
\* largest power of two dividing both the alignment of T and byte_offset.
C20_SubRefCheck ==
    calc.out # NoOut =>
        LET fits == calc.byte_offset + calc.U.size <= calc.T.size
            common == { d \in 1 .. calc.T.align :
                          calc.T.align % d = 0 /\ calc.byte_offset % d = 0 }
        IN  /\ ~fits => ~calc.out.res.some
            /\ fits => (calc.out.res.some <=> \E d \in common : calc.U.align <= d)

\* T of size 32 and alignment 8, U of size 16 and alignment 16, offset 8:
\* None
C20_Witness ==
    /\ calc.out # NoOut
    /\ calc.T = [size |-> 32, align |-> 8]
    /\ calc.U = [size |-> 16, align |-> 16]
    /\ calc.byte_offset = 8
    /\ ~calc.out.res.some

\* C21: when sub_ref::<U>(byte_offset) gives Some, then at every base
\* address that is aligned for T the address base + byte_offset is aligned
\* for U and the bytes of U lie inside the bytes of T; the decision is
\* taken without the address.
C21_SubRefSoundAtEveryBase ==
    (calc.out # NoOut /\ calc.out.res.some) =>
        \A base \in 0 .. SubUsizeMax :
            (base % calc.T.align = 0 /\ base + calc.T.size <= SubUsizeMax) =>
                /\ (base + calc.byte_offset) % calc.U.align = 0
                /\ base + calc.byte_offset >= base
                /\ base + calc.byte_offset + calc.U.size <= base + calc.T.size

\* a sub-reference to a U of alignment 8 was granted at offset 8 of a T
\* of alignment 8
C21_Witness ==
    /\ calc.out # NoOut
    /\ calc.out.res.some
    /\ calc.T = [size |-> 32, align |-> 8]
    /\ calc.U = [size |-> 16, align |-> 8]
    /\ calc.byte_offset = 8

----------------------------------------------------------------------------
(* Properties: the allocation chain *)

\* C25: is_valid_int(ptr, len, mutable) is true exactly when the chain ends
\* in Base(true) or one Allocation frame reachable from the head contains
\* [ptr, ptr + len), the sum not overflowing usize, and is mutable if
\* mutable is asked for.  Callback and Cons frames make nothing valid, an
\* overflowing range is not valid under Base(false), and neither is a range
\* that only two adjacent allocations together cover.
C25_IsValidInt ==
    \A n \in 0 .. Len(stack) : \A ptr \in Addr : \A len \in 0 .. UsizeMax, mutable \in BOOLEAN :
        is_valid_int(stack, n, ptr, len, mutable) =
            \/ cfg.all_upgrades_valid
            \/ \E k \in Set(ChainNodes(stack, n)) \ {0} :
                  /\ stack[k].kind = "alloc"
                  /\ stack[k].ptr <= ptr
                  /\ ptr + len <= stack[k].ptr + stack[k].len
                  /\ ptr + len <= UsizeMax
                  /\ mutable => stack[k].mutable

\* under Base(false), the scope of a callback closure is a Cons frame over
\* a Callback frame and two adjacent allocations: each allocation is
\* reported valid, the range over both is not
C25_Witness ==
    /\ ~cfg.all_upgrades_valid
    /\ Len(stack) >= 4
    /\ stack[Top].kind = "cb"
    /\ \E i, j \in Set(ChainNodes(stack, Top)) \ {0} :
          /\ stack[i].kind = "alloc" /\ stack[j].kind = "alloc"
          /\ stack[i].len > 0
          /\ stack[i].ptr + stack[i].len = stack[j].ptr
          /\ is_valid(stack, Top, stack[i].ptr, stack[i].len)
          /\ is_valid(stack, Top, stack[j].ptr, stack[j].len)
          /\ ~is_valid(stack, Top, stack[i].ptr, stack[i].len + stack[j].len)

\* C23: while the closure of allocate_stacked_mut runs, its inner scope
\* reports valid, for reading and for writing, every sub-range of the new
\* allocation and every range the outer scope reported valid before the
\* call; and no step, a return included, changes what a scope that
\* outlives the step reports valid, so after the call the outer scope
\* reports the same ranges as before it, at every depth of nesting.
C23_InnerScopeExtendsOuter ==
    [][ /\ (Len(stack') = Len(stack) + 1 /\ stack'[Len(stack')].kind = "alloc"
                /\ stack'[Len(stack')].via = "allocate_stacked_mut") =>
            LET f == stack'[Len(stack')]
                inner == Len(stack')
            IN  /\ \A p \in f.ptr .. f.ptr + f.len : \A l \in 0 .. f.ptr + f.len - p :
                      is_valid(stack', inner, p, l) /\ is_valid_mut(stack', inner, p, l)
                /\ \A p \in Addr : \A l \in 0 .. UsizeMax, m \in BOOLEAN :
                      is_valid_int(stack, Len(stack), p, l, m) =>
                          is_valid_int(stack', inner, p, l, m)
        /\ stack' # stack => \A j \in 0 .. Min(Len(stack), Len(stack')) :
              \A p \in Addr : \A l \in 0 .. UsizeMax, m \in BOOLEAN :
                  is_valid_int(stack', j, p, l, m) = is_valid_int(stack, j, p, l, m)
      ]_vars

\* three allocate_stacked_mut calls are nested under Base(false): the
\* innermost scope reports the outermost allocation valid for writing, the
\* outermost scope does not report the innermost allocation
C23_Witness ==
    /\ ~cfg.all_upgrades_valid
    /\ Len(stack) = 3
    /\ \A k \in 1 .. 3 : stack[k].kind = "alloc" /\ stack[k].via = "allocate_stacked_mut"
    /\ is_valid_mut(stack, 3, stack[1].ptr, stack[1].len)
    /\ is_valid_mut(stack, 3, stack[3].ptr, stack[3].len)
    /\ ~is_valid(stack, 1, stack[3].ptr, stack[3].len)

----------------------------------------------------------------------------
(* Properties: zero-copy writes *)

-----------------------------------------------------------------------------
(* Properties: upgrading slices *)

\* C26: OGSlice::upgrade_from_ptr and OGMutSlice::upgrade_from_ptr return a
\* slice of length elements only if ptr is aligned for T and the tracker
\* reports the whole range of length * size_of::<T>() bytes from ptr valid
\* (valid for writing, for OGMutSlice), the product taken without wrapping.
C26_SliceUpgradeCoversWholeRange ==
    (last.op = "upgrade_from_ptr" /\ IsSlice(last.kind) /\ last.some) =>
        /\ last.rlen = last.len
        /\ is_aligned(last.ptr, last.ty.align)
        /\ is_valid_int(stack, last.scope, last.ptr, last.len * last.ty.size,
                        RefMutable(last.kind))

-----------------------------------------------------------------------------
(* Properties: the lifetime of callbacks *)

\* C27: a trampoline invokes a closure only of a setup_callback whose fun is
\* still executing (its Callback frame is on the chain stored in the slot and
\* has the trampoline's id), the slot never points at a frame that is gone,
\* and a trampoline called with the slot empty or with no Callback frame of
\* its id on the active chain panics without invoking a closure.
C27_ClosureInvokedOnlyWhileRegistered ==
    [][ /\ status'.kind # "ub"
        /\ ~slot'.stale
        /\ (ForeignRuns /\ Len(stack') > Len(stack)) =>
              LET f == stack'[Len(stack')]
              IN  /\ f.kind = "cb"
                  /\ slot.some
                  /\ f.closure \in 1 .. Len(stack)
                  /\ f.closure = find_callback_descriptor(stack, slot.head, f.tramp)
                  /\ stack[f.closure].kind = "setup"
                  /\ stack[f.closure].id = f.tramp
        /\ (ForeignRuns /\ ~slot.some /\ stack' # stack) =>
              \/ status'.kind = "panic" /\ status'.msg = "unwrap on None" /\ stack' = <<>>
              \/ Len(stack') < Len(stack)
        /\ (ForeignRuns /\ status'.kind = "panic") =>
              /\ status'.op = "trampoline"
              /\ ~status'.ran
              /\ stack' = <<>>
              /\ \/ ~slot.some
                 \/ \E id \in 0 .. MaxChainDepth :
                        find_callback_descriptor(stack, slot.head, id) = 0
      ]_vars

\* the trampoline of the outer of two nested registrations is called while
\* both run, and the outer closure is the one invoked
C27_Witness ==
    /\ Len(stack) = 4
    /\ stack[1].kind = "setup"
    /\ stack[2].kind = "setup"
    /\ stack[3].kind = "exec"
    /\ stack[4].kind = "cb"
    /\ stack[4].closure = 1
    /\ stack[4].tramp = stack[1].id

\* the ids of the Callback frames of the chain headed by node n, head first
RECURSIVE CallbackIds(_, _)
CallbackIds(st, n) ==
    IF n = 0 THEN <<>>
    ELSE IF st[n].kind = "setup" THEN <<st[n].id>> \o CallbackIds(st, st[n].pred)
    ELSE CallbackIds(st, st[n].pred)

\* C28: setup_callback gives the new Callback frame the id 1 + the id of the
\* Callback frame nearest the head of the chain it is presented, or 0 when
\* there is none; along every chain the Callback ids strictly increase toward
\* the head (so they are pairwise distinct) and find_callback_descriptor
\* matches at most one frame, the one carrying the id.
C28_CallbackIds ==
    [][ /\ (HostRuns /\ Len(stack') > Len(stack) /\ stack'[Len(stack')].kind = "setup") =>
              LET ids == CallbackIds(stack, CurScope)
                  f == stack'[Len(stack')]
              IN  /\ f.pred = CurScope
                  /\ f.id = IF ids = <<>> THEN 0 ELSE 1 + ids[1]
        /\ \A n \in 1 .. Len(stack') :
              (Len(stack') > Len(stack) /\ stack'[n].kind # "exec") =>
                  LET ids == CallbackIds(stack', n)
                      nodes == ChainNodes(stack', n)
                  IN  /\ \A i \in 1 .. Len(ids) - 1 : ids[i] > ids[i + 1]
                      /\ \A id \in 0 .. MaxChainDepth :
                            LET hits == { k \in Set(nodes) \ {0} :
                                            stack'[k].kind = "setup" /\ stack'[k].id = id }
                                d == find_callback_descriptor(stack', n, id)
                            IN  /\ Cardinality(hits) <= 1
                                /\ IF hits = {} THEN d = 0 ELSE hits = {d}
      ]_vars

\* a callback of the inner of two registrations registers a third callback:
\* the chain of the third runs through a Cons frame and holds ids 2, 1, 0
C28_Witness ==
    /\ Len(stack) = 5
    /\ stack[4].kind = "cb"
    /\ stack[5].kind = "setup"
    /\ CallbackIds(stack, 5) = <<2, 1, 0>>

-----------------------------------------------------------------------------
(* Properties: the scope of a callback *)

\* the allocate_stacked_mut allocations made after the registration that a
\* running callback k was dispatched on, and live while k runs
AllocatedSince(k) ==
    { j \in stack[k].pred + 1 .. k - 1 :
        stack[j].kind = "alloc" /\ stack[j].via = "allocate_stacked_mut" }

\* the scope of running callback k is a Cons frame over the Callback frame of
\* the innermost active setup_callback, reports what that frame's scope
\* reports, and carries its runtime's imprint
ConsOverInnermostSetup(k) ==
    LET h == stack[k].pred
    IN  /\ h \in 1 .. k - 1
        /\ stack[h].kind = "setup"
        /\ \A j \in h + 1 .. k - 1 : stack[j].kind # "setup"
        /\ scope_imprint(stack, k) = scope_imprint(stack, h)
        /\ \A ptr \in Addr, len \in 0 .. UsizeMax, mutable \in BOOLEAN :
              is_valid_int(stack, k, ptr, len, mutable)
                  <=> is_valid_int(stack, h, ptr, len, mutable)

\* C29 as stated: the scope handed to a callback is a Cons frame over the
\* slot's chain head, reports exactly what the scope of the innermost active
\* setup_callback reports, carries that runtime's imprint, and never reports
\* valid an allocation that allocate_stacked_mut made after that
\* setup_callback and that is still live.
C29_AsStated ==
    \A k \in 1 .. Len(stack) :
        stack[k].kind = "cb" =>
            /\ ConsOverInnermostSetup(k)
            /\ \A j \in AllocatedSince(k) :
                  ~is_valid(stack, k, stack[j].ptr, stack[j].len)

\* C29: as above, where the allocation made after the setup_callback is not
\* reported valid by the callback's scope when the chain ends in Base(false);
\* over Base(true) the callback's scope reports every range valid.
C29_CallbackScope ==
    \A k \in 1 .. Len(stack) :
        stack[k].kind = "cb" =>
            /\ ConsOverInnermostSetup(k)
            /\ \A j \in AllocatedSince(k) :
                  is_valid(stack, k, stack[j].ptr, stack[j].len) <=> cfg.all_upgrades_valid

\* a callback runs over Base(false) with one allocation made before its
\* registration, which its scope reports valid, and one made after
C29_Witness ==
    /\ ~cfg.all_upgrades_valid
    /\ Len(stack) = 5
    /\ stack[1].kind = "alloc"
    /\ stack[2].kind = "setup"
    /\ stack[5].kind = "cb"
    /\ AllocatedSince(5) = {3}
    /\ is_valid(stack, 5, stack[1].ptr, stack[1].len)

-----------------------------------------------------------------------------
(* Properties: slice writes from an iterator *)

\* C30: write_stacked_slice_from_iter_mut allocates src.len() elements and
\* panics when the iterator yields fewer or more items than src.len(); when
\* it returns, element i of the slice holds the i-th item yielded; and
\* write_from_iter and copy_from_slice return a Val only when every element
\* of the slice was written.
C30_IterYieldsExactly ==
    LET w == mem.wr
    IN  (w # NoOut /\ w.res # "err") =>
          LET len == w.size \div w.ty.size
          IN  /\ (w.op = "write_stacked_slice_from_iter_mut" /\ Len(w.input) # len) =>
                    w.res = "panic"
              /\ w.res = "val" =>
                    /\ Len(w.input) >= len
                    /\ \A i \in 1 .. len :
                          load(mem.bytes, w.ptr + (i - 1) * w.ty.size, w.ty) = w.input[i]

-----------------------------------------------------------------------------
(* Properties: owned copies *)

\* C22: OGCopy::<T>::from_bytes(b) panics exactly when b.len() differs from
\* size_of::<T>() and otherwise returns a copy holding the bytes of b;
\* clone() returns a copy with the same bytes as the original, whatever they
\* are, and leaves the original as it was; OGRef::copy returns a copy holding
\* the bytes of foreign memory that the reference points to.
C22_CopiesPreserveBytes ==
    [][ LET w == mem'.wr
        IN  (w # mem.wr /\ w # NoOut) =>
              /\ w.op = "from_bytes" =>
                    /\ w.res = "panic" <=> Len(w.input) # w.ty.size
                    /\ w.res = "val" => w.copy = w.input
              /\ w.op = "clone" =>
                    /\ w.res = "val"
                    /\ w.copy = mem.wr.copy
                    /\ w.orig = mem.wr.copy
                    /\ Len(w.copy) = w.ty.size
              /\ (w.op = "copy" /\ w.res = "val") =>
                    /\ Len(w.copy) = w.ty.size
                    /\ w.copy = [i \in 1 .. w.ty.size |-> mem.bytes[w.ptr + i]]
              /\ mem'.bytes = mem.bytes
      ]_vars

\* the clone of a two-byte copy whose bytes differ
C22_Witness ==
    /\ mem.wr # NoOut
    /\ mem.wr.op = "clone"
    /\ mem.wr.res = "val"
    /\ mem.wr.copy = <<1, 0>>
    /\ mem.wr.orig = <<1, 0>>
====
